---- MODULE Spec2Model ----
(***************************************************************************)
(* A model of the MiladyOS pipeline orchestration core:                    *)
(*   - RedkaMetadataManager (src/miladyos_metadata.py): the metadata store *)
(*     adapter over a Redis-compatible store (hashes, sorted sets, sets);  *)
(*   - JenkinsUtils and MiladyOSToolServer._execute_tool                   *)
(*     (src/miladyos_mcp.py): the Jenkins client and the tool handlers.    *)
(* Strings that the code only compares are modelled by short strings;      *)
(* a template or job name is a sequence of tokens, where the token "J"     *)
(* stands for the literal text ".Jenkinsfile" (so that the file of the     *)
(* template n is n \o <<"J">>) and <<>> is the empty string / None.        *)
(* Wall-clock time (time.time(), datetime.now()) is the logical `clock`.   *)
(***************************************************************************)
EXTENDS Integers, Sequences, FiniteSets, TLC

\* ------------------------------------------------------------------ bounds

\* Execution ids (uuid4 values) available to the model.
MaxExecs == 2
\* The logical clock stops the model after this many time-stamped operations.
MaxClock == 3
\* Largest limit passed to list_executions.
MaxLimit == 2

VARIABLES
    clock,        \* logical wall clock
    usedIds,      \* execution ids already drawn from uuid4 or named by a caller
    execHash,     \* miladyos:execution:<id>   hashes (function: id -> fields)
    executions,   \* miladyos:executions       sorted set (function: id -> score)
    tplExecs,     \* miladyos:template_executions:<name>  sorted sets
    jobExecs,     \* miladyos:job_executions:<server>:<job>  sorted sets (the
                  \* code never reads them back: members only, no scores)
    statusSet,    \* miladyos:status:<status>  sets
    console,      \* miladyos:console:<id>     strings
    consoleFile,  \* metadata/console_<id>.txt files on the local disk
    deployments,  \* miladyos:deployment:<id>  hashes
    jobIndex,     \* miladyos:job_index:<server>:<job>  strings (deployment id)
    tplDeployments, \* miladyos:template_deployments:<name>  sets
    tplHash,      \* miladyos:template:<name>  hashes
    templates,    \* miladyos:templates        sorted set (the catalog)
    files,        \* the templates directory: file name -> content
    jobs,         \* the jobs on the Jenkins server
    seenVersion,  \* highest version ever stored for a name (not a variable
                  \* of the code)
    ret,          \* the last operation and what it returned
    \* one Jenkins build, as JenkinsUtils.stream_job_output sees it
    bldBuilding,  \* build_info["building"]
    bldResult,    \* build_info["result"]
    bldConsole,   \* the build's console text (append-only)
    \* one call of JenkinsUtils.stream_job_output
    stPc,         \* "idle", "loop" (at the while test) or "done" (returned)
    stRetries,    \* retries
    stPolls,      \* loop iterations begun so far (not a variable of the code)
    stOffset,     \* offset
    stOutput,     \* "".join(output_chunks)
    stResult,     \* the record returned
    \* one call of JenkinsUtils.connect_to_jenkins
    cnChecks,     \* get_whoami calls made (not a variable of the code)
    cnResult,     \* "" before the call, "handle" or "JenkinsApiError" after
    \* one call of JenkinsUtils.start_jenkins_job
    sjPc,         \* "idle", "trigger", "poll", "return" or "done"
    sjPosted,     \* build triggers posted (not a variable of the code)
    sjPolls,      \* get_queue_item calls made (not a variable of the code)
    sjSeen,       \* the executable number a poll observed, 0 if none (not a
                  \* variable of the code)
    sjRetry,      \* retry_count
    sjBuild,      \* build_number, 0 for None
    sjResult,     \* the record returned
    \* the tool server
    tool_registry, \* self.tool_registry
    \* run_pipeline calls served as tasks of one event loop, on one job
    jkBuilds,     \* the builds of the job on Jenkins, by build number
    jkQueue,      \* the queue item of each task's build trigger
    tk            \* each task: where it is suspended and its local variables

storeVars == <<usedIds, execHash, executions, tplExecs, jobExecs, statusSet,
               console, consoleFile, deployments, jobIndex, tplDeployments>>
tplVars == <<tplHash, templates, files, jobs, seenVersion>>
obsVars == <<ret>>
streamVars == <<bldBuilding, bldResult, bldConsole, stPc, stRetries, stPolls,
                stOffset, stOutput, stResult>>
clientVars == <<cnChecks, cnResult, sjPc, sjPosted, sjPolls, sjSeen, sjRetry,
                sjBuild, sjResult>>
serverVars == <<tool_registry>>
taskVars == <<jkBuilds, jkQueue, tk>>
vars == <<clock, storeVars, tplVars, obsVars, streamVars, clientVars, serverVars,
          taskVars>>

\* The state the operations below transform, as one record.
World ==
    [clock |-> clock, usedIds |-> usedIds, execHash |-> execHash,
     executions |-> executions, tplExecs |-> tplExecs, jobExecs |-> jobExecs,
     statusSet |-> statusSet, console |-> console, consoleFile |-> consoleFile,
     deployments |-> deployments, jobIndex |-> jobIndex,
     tplDeployments |-> tplDeployments, tplHash |-> tplHash,
     templates |-> templates, files |-> files, jobs |-> jobs]

\* The store, the templates directory and the Jenkins jobs are those of the
\* record W.
CommitWorld(W) ==
    /\ clock' = W.clock
    /\ usedIds' = W.usedIds
    /\ execHash' = W.execHash
    /\ executions' = W.executions
    /\ tplExecs' = W.tplExecs
    /\ jobExecs' = W.jobExecs
    /\ statusSet' = W.statusSet
    /\ console' = W.console
    /\ consoleFile' = W.consoleFile
    /\ deployments' = W.deployments
    /\ jobIndex' = W.jobIndex
    /\ tplDeployments' = W.tplDeployments
    /\ tplHash' = W.tplHash
    /\ templates' = W.templates
    /\ files' = W.files
    /\ jobs' = W.jobs
    /\ seenVersion' =
          [n \in (DOMAIN seenVersion) \cup (DOMAIN W.tplHash) |->
              LET old == IF n \in DOMAIN seenVersion THEN seenVersion[n] ELSE 0
                  new == IF n \in DOMAIN W.tplHash THEN W.tplHash[n].version ELSE 0
              IN IF new > old THEN new ELSE old]

\* The next state is the record W.
Commit(W) ==
    /\ CommitWorld(W)
    /\ UNCHANGED <<streamVars, clientVars, serverVars, taskVars>>

\* ------------------------------------------------------------ value spaces

ExecIds == 1..MaxExecs
NoName == <<>>
\* Template names, in the order Redis ranks them when their scores are equal.
NameOrder == << <<"a">>, <<"a", "J">> >>
TemplateNames == {NameOrder[i] : i \in 1..Len(NameOrder)}
Status == {"running", "complete", "failed", "unknown"}
Terminal == {"complete", "failed"}
\* Console texts: sequences of tokens; "OK" stands for a line
\* "Finished: SUCCESS", "KO" for "Finished: FAILURE", "x"/"y" for other text.
NoText == <<>>

\* The parameters of a run: a JSON object, as the tool arguments give it.
\* A map is a set of <<key, value>> pairs with one pair per key; a value is
\* a string or an integer, kept with its type.
JsonKeys == <<"k", "m">>
JsonValues == {[t |-> "str", v |-> "v"], [t |-> "str", v |-> "1"],
               [t |-> "int", v |-> "1"]}
ParamMaps ==
    {p \in SUBSET ({JsonKeys[i] : i \in 1..Len(JsonKeys)} \X JsonValues) :
        \A x \in p, y \in p : x[1] = y[1] => x = y}

\* The text of a value without the quotes of a string.
JsonReprBare(x) == x.v

\* The JSON text of a value: a string in quotes, an integer bare.
JsonRepr(x) == IF x.t = "str" THEN "\"" \o x.v \o "\"" ELSE x.v

\* json.dumps on the parameters map: '{"k": <value>, "m": <value>}' with
\* the keys in the order JsonKeys; its result is a string.
RECURSIVE JsonMembers(_, _)
JsonMembers(p, i) ==
    IF i > Len(JsonKeys) THEN <<>>
    ELSE LET here == {x \in p : x[1] = JsonKeys[i]}
         IN (IF here = {} THEN <<>>
             ELSE <<"\"" \o JsonKeys[i] \o "\": "
                      \o JsonRepr((CHOOSE x \in here : TRUE)[2])>>)
            \o JsonMembers(p, i + 1)
RECURSIVE JsonJoin(_)
JsonJoin(parts) ==
    IF parts = <<>> THEN ""
    ELSE IF Len(parts) = 1 THEN parts[1]
    ELSE parts[1] \o ", " \o JsonJoin(Tail(parts))
JsonDumps(p) == "{" \o JsonJoin(JsonMembers(p, 1)) \o "}"

\* json.loads on a stored text: the object whose text it is; for a text
\* that is no object's, JSONDecodeError (handled by the callers as {}).
JsonIsObject(s) == \E p \in ParamMaps : JsonDumps(p) = s
JsonLoads(s) == CHOOSE p \in ParamMaps : JsonDumps(p) = s

\* Below, CHOOSE out \in {e(r) : r \in {v}} : TRUE is e(r) for r = v: the
\* local variable r holds the value of v, evaluated once.

\* ------------------------------------------------ Redis sorted sets and sets

EmptyZ == <<>>
ZAdd(z, m, s) == [x \in (DOMAIN z) \cup {m} |-> IF x = m THEN s ELSE z[x]]
ZRem(z, m) == [x \in (DOMAIN z) \ {m} |-> z[x]]

\* The members of an id-keyed sorted set, highest score first (ties: the
\* lexicographically larger member first), as ZREVRANGE orders them.
RECURSIVE ZRevSeq(_)
ZRevSeq(z) ==
    IF DOMAIN z = {} THEN <<>>
    ELSE LET m == CHOOSE x \in DOMAIN z :
                    \A y \in DOMAIN z : z[y] < z[x] \/ (z[y] = z[x] /\ y <= x)
         IN <<m>> \o ZRevSeq(ZRem(z, m))

\* Redis index range [start, stop] (0-based, inclusive; a negative index
\* counts from the end) over a sequence already in rank order.
RedisRange(s, start, stop) ==
    LET n == Len(s)
        a0 == IF start < 0 THEN n + start ELSE start
        b0 == IF stop < 0 THEN n + stop ELSE stop
        a == IF a0 < 0 THEN 0 ELSE a0
        b == IF b0 >= n THEN n - 1 ELSE b0
    IN IF a > b \/ a >= n THEN <<>> ELSE SubSeq(s, a + 1, b + 1)

\* Python's s[:k].
PySliceTo(s, k) ==
    LET n == Len(s)
        e0 == IF k < 0 THEN n + k ELSE k
        e == IF e0 < 0 THEN 0 ELSE IF e0 > n THEN n ELSE e0
    IN SubSeq(s, 1, e)

RECURSIVE SeqFilterIn(_, _)
SeqFilterIn(s, S) ==
    IF s = <<>> THEN <<>>
    ELSE (IF Head(s) \in S THEN <<Head(s)>> ELSE <<>>) \o SeqFilterIn(Tail(s), S)

\* ------------------------------------------------------------ execution hash

\* The fields the adapter reads back; "" / <<>> / 0 is an absent or empty field.
BlankExec ==
    [status |-> "", template_name |-> NoName, jenkins_job_name |-> NoName,
     server_name |-> "", build_number |-> 0, parameters |-> "",
     deployment_id |-> 0, started_at |-> 0,
     result |-> "", console_stored |-> FALSE]

HashExists(h, id) == id \in DOMAIN h
HSet(h, id, rec) == [x \in (DOMAIN h) \cup {id} |-> IF x = id THEN rec ELSE h[x]]
HDel(h, id) == [x \in (DOMAIN h) \ {id} |-> h[x]]

GetZ(f, k) == IF k \in DOMAIN f THEN f[k] ELSE EmptyZ
GetS(f, k) == IF k \in DOMAIN f THEN f[k] ELSE {}
PutKey(f, k, v) == [x \in (DOMAIN f) \cup {k} |-> IF x = k THEN v ELSE f[x]]

\* An id generator that gives the same id at every call.
StaleId(used) == CHOOSE i \in ExecIds : \A j \in ExecIds : i <= j

\* uuid.uuid4(): an id no caller and no earlier call has used.
FreshId(used) == CHOOSE i \in ExecIds \ used : \A j \in ExecIds \ used : i <= j

\* ------------------------------------------- RedkaMetadataManager: executions

\* Where the store may fail inside record_execution:
\*   lookup - the job_index GET (line 262, outside any try: the call raises);
\*   hash   - the DELETE/HSET of the execution hash (caught: the hash is not written);
\*   index  - 0: no failure; k in 1..4: the k-th index write raises (caught:
\*            the writes before it are kept, the later ones are skipped);
\*   verify - the final HGETALL (line 329, outside any try: the call raises
\*            after its writes).
RecordFailures ==
    [lookup : BOOLEAN, hash : BOOLEAN, index : 0..4, verify : BOOLEAN]
NoRecordFailure == [lookup |-> FALSE, hash |-> FALSE, index |-> 0, verify |-> FALSE]

\* record_execution.  Returns [w: the world after, raised, id, info].
RecordExecution(W, dep, tpl, job, srv, build, params, f) ==
    LET lookup == dep = 0 /\ tpl # NoName /\ job # NoName /\ srv # ""
        depId == IF lookup
                 THEN (IF <<srv, job>> \in DOMAIN W.jobIndex
                       THEN W.jobIndex[<<srv, job>>] ELSE 0)
                 ELSE dep
        id == FreshId(W.usedIds)
        now == W.clock + 1
        info == [BlankExec EXCEPT
                    !.deployment_id = depId, !.template_name = tpl,
                    !.jenkins_job_name = job, !.server_name = srv,
                    !.build_number = build, !.parameters = JsonDumps(params),
                    !.started_at = now, !.status = "running"]
        done(k) == f.index = 0 \/ k < f.index
        W1 == [W EXCEPT
                 !.clock = now,
                 !.usedIds = @ \cup {id},
                 !.execHash = IF f.hash THEN HDel(@, id) ELSE HSet(@, id, info),
                 !.executions = IF done(1) THEN ZAdd(@, id, now) ELSE @,
                 !.tplExecs = IF done(2) /\ tpl # NoName
                              THEN PutKey(@, tpl, ZAdd(GetZ(@, tpl), id, now))
                              ELSE @,
                 !.jobExecs = IF done(3) /\ job # NoName /\ srv # ""
                              THEN PutKey(@, <<srv, job>>,
                                          GetS(@, <<srv, job>>) \cup {id})
                              ELSE @,
                 !.statusSet = IF done(4)
                               THEN [@ EXCEPT !["running"] = @ \cup {id}]
                               ELSE @]
    IN IF lookup /\ f.lookup
       THEN [w |-> W, raised |-> TRUE, id |-> 0, info |-> BlankExec]
       ELSE [w |-> W1, raised |-> f.verify, id |-> id, info |-> info]

\* Where the store may fail inside update_execution_status:
\*   pre     - the EXISTS at line 355 (outside any try: the call raises before
\*             it has written anything);
\*   console - the console block (caught): "" none, "exists" before the old
\*             blob is deleted, "set" after the delete and before the SET,
\*             "verify" after the SET (blob stored, flag not set);
\*   main    - 0: no failure; k in 1..7: the k-th store operation of the main
\*             block raises (caught, an error record is returned): 1 HSET,
\*             2 ZADD executions, 3 SREM, 4 SADD, 5 HGETALL, 6 ZADD template
\*             list, 7 ZADD job list.
UpdateFailures ==
    [pre : BOOLEAN, console : {"", "exists", "set", "verify"}, main : 0..7]
NoUpdateFailure == [pre |-> FALSE, console |-> "", main |-> 0]

\* The status-index update of update_execution_status (lines 406-417), given
\* which of its store operations are reached.
MoveStatus(sets, id, old, status, doSrem, doSadd) ==
    LET s1 == IF doSrem /\ old # ""
              THEN [sets EXCEPT ![old] = @ \ {id}] ELSE sets
    IN IF doSadd THEN [s1 EXCEPT ![status] = @ \cup {id}] ELSE s1

\* The console key left with its earlier text when it already exists.
SetConsoleIfAbsent(con, id, text) ==
    IF id \in DOMAIN con THEN con ELSE HSet(con, id, text)

\* The console key after DELETE of an existing key and SET (lines 383-397).
SetConsole(con, id, text) == HSet(HDel(con, id), id, text)

\* update_execution_status.  Returns [w, raised, error, info]: error is TRUE
\* when the error record of the except branch (lines 443-451) is returned.
UpdateExecutionStatus(W, id, status, result, text, f) ==
    LET now == W.clock + 1
        h0 == IF HashExists(W.execHash, id) THEN W.execHash
              ELSE HSet(W.execHash, id,
                        [BlankExec EXCEPT !.status = "unknown", !.started_at = now])
        old == h0[id]
        consoleOk == text # NoText /\ f.console = ""
        console1 == IF text = NoText \/ f.console = "exists" THEN W.console
                    ELSE IF f.console = "set" THEN HDel(W.console, id)
                    ELSE SetConsole(W.console, id, text)
        upd == [old EXCEPT
                  !.status = status,
                  !.result = IF result # "" THEN result ELSE @,
                  !.console_stored = IF consoleOk THEN TRUE ELSE @]
        done(k) == f.main = 0 \/ k < f.main
        changed == status # old.status
        h1 == IF done(1) THEN HSet(h0, id, upd) ELSE h0
        new == h1[id]
        W1 == [W EXCEPT
                 !.clock = now,
                 !.usedIds = @ \cup {id},
                 !.console = console1,
                 !.execHash = h1,
                 !.executions = IF changed /\ done(2) THEN ZAdd(@, id, now) ELSE @,
                 !.statusSet = IF changed
                               THEN MoveStatus(@, id, old.status, status,
                                               done(3), done(4))
                               ELSE @,
                 !.tplExecs = IF done(6) /\ new.template_name # NoName
                              THEN PutKey(@, new.template_name,
                                          ZAdd(GetZ(@, new.template_name), id, now))
                              ELSE @,
                 !.jobExecs = IF done(7) /\ new.jenkins_job_name # NoName
                                 /\ new.server_name # ""
                              THEN PutKey(@, <<new.server_name, new.jenkins_job_name>>,
                                          GetS(@, <<new.server_name,
                                                    new.jenkins_job_name>>)
                                          \cup {id})
                              ELSE @]
    IN IF f.pre
       THEN [w |-> [W EXCEPT !.usedIds = @ \cup {id}], raised |-> TRUE,
             error |-> FALSE, info |-> BlankExec]
       ELSE [w |-> W1, raised |-> FALSE, error |-> f.main # 0, info |-> new]

\* Console text tokens: "OK" is the line "Finished: SUCCESS", "KO" the line
\* "Finished: FAILURE".
Contains(text, tok) == \E i \in 1..Len(text) : text[i] = tok

\* The fallback record without the reading of the console text.
DerivedFromNothing(text) == [status |-> "unknown", result |-> ""]

\* The status and result that the fallback of get_execution derives from a
\* console text (lines 478, 494-499).
DerivedFromConsole(text) ==
    IF Contains(text, "OK") THEN [status |-> "complete", result |-> "SUCCESS"]
    ELSE IF Contains(text, "KO") THEN [status |-> "failed", result |-> "FAILURE"]
    ELSE [status |-> "unknown", result |-> ""]

\* get_execution.  Returns [w, ok, exec, console_output, decoded,
\* parameters]: ok is FALSE when the call raises ValueError; exec holds the
\* fields of the hash; decoded tells that `parameters` was parsed back from
\* JSON and `parameters` is then the parsed map.
GetExecution(W, id) ==
    IF ~HashExists(W.execHash, id)
    THEN IF id \in DOMAIN W.consoleFile
         THEN LET text == W.consoleFile[id]
                  der == DerivedFromConsole(text)
              IN [w |-> [W EXCEPT !.console = HSet(@, id, text)],
                  ok |-> TRUE,
                  exec |-> [BlankExec EXCEPT !.status = der.status,
                                             !.result = der.result],
                  console_output |-> text, decoded |-> FALSE, parameters |-> {}]
         ELSE [w |-> W, ok |-> FALSE, exec |-> BlankExec,
               console_output |-> NoText, decoded |-> FALSE, parameters |-> {}]
    ELSE LET rec == W.execHash[id]
             inStore == id \in DOMAIN W.console
             fromFile == ~inStore /\ rec.console_stored /\ id \in DOMAIN W.consoleFile
         IN [w |-> IF fromFile
                   THEN [W EXCEPT !.console = HSet(@, id, W.consoleFile[id])]
                   ELSE W,
             ok |-> TRUE,
             exec |-> rec,
             console_output |->
                 IF inStore THEN W.console[id]
                 ELSE IF fromFile THEN W.consoleFile[id]
                 ELSE IF rec.console_stored THEN <<"no longer available">>
                 ELSE NoText,
             decoded |-> rec.parameters # "",
             parameters |-> IF rec.parameters = "" THEN {}
                            ELSE IF JsonIsObject(rec.parameters)
                            THEN JsonLoads(rec.parameters) ELSE {}]

\* The loop of list_executions (lines 588-597): get_execution on each id, the
\* ids whose get_execution raises are skipped.  A fetched record is kept
\* with its id.
RECURSIVE FetchAll(_, _)
FetchAll(W, ids) ==
    IF ids = <<>> THEN [w |-> W, recs |-> <<>>]
    ELSE LET g == GetExecution(W, Head(ids))
             rest == FetchAll(g.w, Tail(ids))
         IN [w |-> rest.w,
             recs |-> (IF g.ok THEN <<[id |-> Head(ids), exec |-> g.exec]>>
                       ELSE <<>>) \o rest.recs]

SeqRange(s) == {s[i] : i \in 1..Len(s)}

\* The ids list_executions selects (lines 563-586); tpl = NoName and
\* status = "" are the absent filters.
ListedIds(W, tpl, limit, status) ==
    IF tpl # NoName /\ status # ""
    THEN PySliceTo(SeqFilterIn(ZRevSeq(GetZ(W.tplExecs, tpl)), W.statusSet[status]),
                   limit)
    ELSE IF tpl # NoName
    THEN RedisRange(ZRevSeq(GetZ(W.tplExecs, tpl)), 0, limit - 1)
    ELSE IF status # ""
    THEN IF W.statusSet[status] # {}
         THEN PySliceTo(SeqFilterIn(ZRevSeq(W.executions), W.statusSet[status]),
                        limit)
         ELSE <<>>
    ELSE RedisRange(ZRevSeq(W.executions), 0, limit - 1)

\* list_executions.  Returns [w, recs].
ListExecutions(W, tpl, limit, status) ==
    FetchAll(W, ListedIds(W, tpl, limit, status))


\* -------------------------------------------------- the templates directory

\* f"{template_name}.Jenkinsfile"
FileOf(n) == n \o <<"J">>
\* file.endswith(".Jenkinsfile")
EndsWithJenkinsfile(file) == file # <<>> /\ file[Len(file)] = "J"
\* file.replace('.Jenkinsfile', ''): every occurrence is removed.
RECURSIVE StripJenkinsfile(_)
StripJenkinsfile(file) ==
    IF file = <<>> THEN <<>>
    ELSE (IF Head(file) = "J" THEN <<>> ELSE <<Head(file)>>)
         \o StripJenkinsfile(Tail(file))

\* A Jenkinsfile is a sequence of lines.  A line has a kind: "D" for a line
\* "// Description: <s>", "C" for another line starting with "//", "T" for
\* any other line.
Line(k, s) == [k |-> k, s |-> s]
NoDescription == "No description provided"
\* TemplateUtils.generate_jenkinsfile_content
GenerateJenkinsfileContent(desc) ==
    <<Line("C", "Jenkinsfile for"), Line("D", desc), Line("T", "pipeline")>>
\* The text of the first description line of a content, "" if there is none.
RECURSIVE ExtractDescription(_)
ExtractDescription(content) ==
    IF content = <<>> THEN ""
    ELSE IF Head(content).k = "D" THEN Head(content).s
    ELSE ExtractDescription(Tail(content))
\* The file rewrite of update_template (lines 664-679).
RewriteDescription(content, desc) ==
    IF \E i \in 1..Len(content) : content[i].k = "D"
    THEN [i \in 1..Len(content) |->
            IF content[i].k = "D" THEN Line("D", desc) ELSE content[i]]
    ELSE IF content # <<>> /\ content[1].k = "C"
    THEN <<content[1], Line("D", desc)>> \o Tail(content)
    ELSE <<Line("D", desc)>> \o content

\* -------------------------------------------- RedkaMetadataManager: templates

\* register_template that stores version 1 whatever the record holds.
RegisterTemplateAtOne(W, n, description) ==
    IF FileOf(n) \notin DOMAIN W.files
    THEN [w |-> W, raised |-> TRUE, version |-> 0]
    ELSE LET now == W.clock + 1
             data == [description |-> NoDescription, created_at |-> now,
                      updated_at |-> now, version |-> 1]
         IN [w |-> [W EXCEPT !.clock = now,
                             !.tplHash = HSet(@, n, data),
                             !.templates = ZAdd(@, n, now)],
             raised |-> FALSE, version |-> 1]

\* register_template; description "" is None.  Returns [w, raised, version].
RegisterTemplate(W, n, description) ==
    IF FileOf(n) \notin DOMAIN W.files
    THEN [w |-> W, raised |-> TRUE, version |-> 0]
    ELSE LET now == W.clock + 1
             found == ExtractDescription(W.files[FileOf(n)])
             desc == IF description # "" THEN description ELSE found
             known == n \in DOMAIN W.tplHash
             version == IF known THEN W.tplHash[n].version + 1 ELSE 1
             data == [description |-> IF desc # "" THEN desc ELSE NoDescription,
                      created_at |-> IF known THEN W.tplHash[n].created_at ELSE now,
                      updated_at |-> now,
                      version |-> version]
         IN [w |-> [W EXCEPT !.clock = now,
                             !.tplHash = HSet(@, n, data),
                             !.templates = ZAdd(@, n, now)],
             raised |-> FALSE, version |-> version]

\* The first loop of list_templates (lines 158-163) over the names found in
\* the directory; `known` is the catalog as read before the loop.
RECURSIVE RegisterUnknown(_, _, _)
RegisterUnknown(W, names, known) ==
    IF names = <<>> THEN W
    ELSE RegisterUnknown(IF Head(names) \in known THEN W
                         ELSE RegisterTemplate(W, Head(names), "").w,
                         Tail(names), known)

\* The second loop of list_templates (lines 166-170).
RemoveDeleted(W, known, found) ==
    [W EXCEPT !.tplHash = [n \in (DOMAIN @) \ (known \ found) |-> @[n]],
              !.templates = [n \in (DOMAIN @) \ (known \ found) |-> @[n]]]

\* The names of the catalog, lowest score first (ties: in NameOrder).
RECURSIVE CatalogSeq(_)
CatalogSeq(z) ==
    IF DOMAIN z = {} THEN <<>>
    ELSE LET rank(n) == CHOOSE i \in 1..Len(NameOrder) : NameOrder[i] = n
             m == CHOOSE x \in DOMAIN z :
                    \A y \in DOMAIN z :
                        z[x] < z[y] \/ (z[x] = z[y] /\ rank(x) <= rank(y))
         IN <<m>> \o CatalogSeq(ZRem(z, m))

\* The names list_templates finds in the directory (lines 148-152), in the
\* order the directory is listed.
RECURSIVE TemplateFiles(_, _)
TemplateFiles(W, names) ==
    IF names = <<>> THEN <<>>
    ELSE (IF /\ FileOf(Head(names)) \in DOMAIN W.files
             /\ EndsWithJenkinsfile(FileOf(Head(names)))
          THEN <<StripJenkinsfile(FileOf(Head(names)))>> ELSE <<>>)
         \o TemplateFiles(W, Tail(names))

\* list_templates.  Returns [w, templates].
ListTemplates(W) ==
    LET found == TemplateFiles(W, NameOrder)
        known == DOMAIN W.templates
        W1 == RegisterUnknown(W, found, known)
        W2 == RemoveDeleted(W1, known, SeqRange(found))
        names == CatalogSeq(W2.templates)
        listed == SelectSeq(names, LAMBDA n : n \in DOMAIN W2.tplHash)
    IN [w |-> W2,
        templates |-> [i \in 1..Len(listed) |->
                          [name |-> listed[i],
                           description |-> W2.tplHash[listed[i]].description,
                           version |-> W2.tplHash[listed[i]].version,
                           updated_at |-> W2.tplHash[listed[i]].updated_at]]]

\* update_template.  Returns [w, raised, version].
UpdateTemplate(W, n, description) ==
    IF n \notin DOMAIN W.tplHash
    THEN [w |-> W, raised |-> TRUE, version |-> 0]
    ELSE LET now == W.clock + 1
             version == W.tplHash[n].version + 1
         IN [w |-> [W EXCEPT
                      !.clock = now,
                      !.tplHash[n] = [@ EXCEPT !.description = description,
                                               !.version = version,
                                               !.updated_at = now],
                      !.templates = ZAdd(@, n, now),
                      !.files = IF FileOf(n) \in DOMAIN @
                                THEN [@ EXCEPT ![FileOf(n)] =
                                         RewriteDescription(@, description)]
                                ELSE @],
             raised |-> FALSE, version |-> version]

\* increment_template_version.  Returns [w, raised, version].
IncrementTemplateVersion(W, n) ==
    IF n \notin DOMAIN W.tplHash
    THEN [w |-> W, raised |-> TRUE, version |-> 0]
    ELSE LET now == W.clock + 1
             version == W.tplHash[n].version + 1
         IN [w |-> [W EXCEPT
                      !.clock = now,
                      !.tplHash[n] = [@ EXCEPT !.version = version,
                                               !.updated_at = now],
                      !.templates = ZAdd(@, n, now)],
             raised |-> FALSE, version |-> version]

\* deploy_pipeline that leaves an existing job_index entry as it is.
DeployPipelineKeepingIndex(W, tpl, job, srv) ==
    IF tpl \notin DOMAIN W.tplHash
    THEN [w |-> W, raised |-> TRUE, id |-> 0]
    ELSE LET id == Cardinality(DOMAIN W.deployments) + 1
             now == W.clock + 1
             info == [template_name |-> tpl,
                      template_version |-> W.tplHash[tpl].version,
                      jenkins_job_name |-> job, server_name |-> srv,
                      deployed_at |-> now, status |-> "deployed"]
         IN [w |-> [W EXCEPT
                      !.clock = now,
                      !.deployments = HSet(@, id, info),
                      !.tplDeployments = PutKey(@, tpl, GetS(@, tpl) \cup {id}),
                      !.jobIndex = IF <<srv, job>> \in DOMAIN @ THEN @
                                   ELSE PutKey(@, <<srv, job>>, id)],
             raised |-> FALSE, id |-> id]

\* deploy_pipeline that looks for the template record after its writes.
DeployPipelineCheckingLast(W, tpl, job, srv) ==
    LET id == Cardinality(DOMAIN W.deployments) + 1
        now == W.clock + 1
        info == [template_name |-> tpl,
                 template_version |-> IF tpl \in DOMAIN W.tplHash
                                      THEN W.tplHash[tpl].version ELSE 1,
                 jenkins_job_name |-> job, server_name |-> srv,
                 deployed_at |-> now, status |-> "deployed"]
    IN [w |-> [W EXCEPT
                 !.clock = now,
                 !.deployments = HSet(@, id, info),
                 !.tplDeployments = PutKey(@, tpl, GetS(@, tpl) \cup {id}),
                 !.jobIndex = PutKey(@, <<srv, job>>, id)],
        raised |-> tpl \notin DOMAIN W.tplHash,
        id |-> IF tpl \in DOMAIN W.tplHash THEN id ELSE 0]

\* deploy_pipeline of the adapter.  Returns [w, raised, id].
DeployPipeline(W, tpl, job, srv) ==
    IF tpl \notin DOMAIN W.tplHash
    THEN [w |-> W, raised |-> TRUE, id |-> 0]
    ELSE LET id == Cardinality(DOMAIN W.deployments) + 1
             now == W.clock + 1
             info == [template_name |-> tpl,
                      template_version |-> W.tplHash[tpl].version,
                      jenkins_job_name |-> job, server_name |-> srv,
                      deployed_at |-> now, status |-> "deployed"]
         IN [w |-> [W EXCEPT
                      !.clock = now,
                      !.deployments = HSet(@, id, info),
                      !.tplDeployments = PutKey(@, tpl, GetS(@, tpl) \cup {id}),
                      !.jobIndex = PutKey(@, <<srv, job>>, id)],
             raised |-> FALSE, id |-> id]

\* Where the store may fail inside deploy_pipeline: "" nowhere, "hset"
\* before the deployment hash is written, "sadd" after the hash and before
\* the template's set, "set" after both and before the job index.
DeployFailures == {"", "hset", "sadd", "set"}
\* deploy_pipeline with the store failing at f: the three writes are
\* separate commands and nothing undoes the ones already made.
DeployPipelineFailing(W, tpl, job, srv, f) ==
    LET r == DeployPipeline(W, tpl, job, srv)
    IN IF r.raised \/ f = "" THEN r
       ELSE IF f = "hset" THEN [w |-> W, raised |-> TRUE, id |-> 0]
       ELSE IF f = "sadd"
       THEN [w |-> [W EXCEPT !.clock = r.w.clock,
                             !.deployments = r.w.deployments],
             raised |-> TRUE, id |-> 0]
       ELSE [w |-> [W EXCEPT !.clock = r.w.clock,
                             !.deployments = r.w.deployments,
                             !.tplDeployments = r.w.tplDeployments],
             raised |-> TRUE, id |-> 0]

\* ------------------------------------- MiladyOSToolServer: template tools

\* What a template tool returns, with the world after it.
ToolResult(W, ok, status, version, diff) ==
    [w |-> W, ok |-> ok, status |-> status, version |-> version, diff |-> diff]

\* Where the store may fail inside register_template: "" nowhere, "hset"
\* before the record is written (EXISTS, HGET or HSET raises), "zadd" after
\* the record is written (the ZADD of the catalog raises).
RegisterFailures == {"", "hset", "zadd"}
\* register_template with the store failing at f.
RegisterTemplateFailing(W, n, description, f) ==
    LET r == RegisterTemplate(W, n, description)
    IN IF r.raised \/ f = "" THEN r
       ELSE IF f = "hset" THEN [w |-> W, raised |-> TRUE, version |-> 0]
       ELSE [w |-> [r.w EXCEPT !.templates = W.templates],
             raised |-> TRUE, version |-> 0]

\* create_template; f is the store failure met while registering.
CreateTemplate(W, n, description, f) ==
    IF n = NoName \/ description = ""
    THEN ToolResult(W, FALSE, "error", 0, <<>>)
    ELSE LET content == GenerateJenkinsfileContent(description)
             W1 == [W EXCEPT !.files = PutKey(@, FileOf(n), content)]
             r == RegisterTemplateFailing(W1, n, description, f)
         IN ToolResult(r.w, TRUE, "success",
                       IF r.raised THEN 1 ELSE r.version, <<>>)

\* difflib.unified_diff joined: empty when the two texts have the same lines.
UnifiedDiff(old, new) == IF old = new THEN <<>> ELSE <<old, new>>

\* edit_template from the write of the file on (lines 1146-1188).
EditTemplateWrite(W, n, content, description) ==
    LET W1 == [W EXCEPT !.files[FileOf(n)] = content]
        r == IF description # "" THEN UpdateTemplate(W1, n, description)
             ELSE IncrementTemplateVersion(W1, n)
    IN IF r.raised THEN ToolResult(W1, FALSE, "error", 0, <<>>)
       ELSE ToolResult(r.w, TRUE, "success", r.version, <<>>)

\* edit_template without its preview branch.
EditTemplateIgnoringPreview(W, n, content, diff_preview, description) ==
    IF n = NoName \/ content = <<>> \/ FileOf(n) \notin DOMAIN W.files
    THEN ToolResult(W, FALSE, "error", 0, <<>>)
    ELSE EditTemplateWrite(W, n, content, description)

\* edit_template.
EditTemplate(W, n, content, diff_preview, description) ==
    IF n = NoName \/ content = <<>> \/ FileOf(n) \notin DOMAIN W.files
    THEN ToolResult(W, FALSE, "error", 0, <<>>)
    ELSE IF diff_preview
    THEN ToolResult(W, TRUE, "preview", 0, UnifiedDiff(W.files[FileOf(n)], content))
    ELSE EditTemplateWrite(W, n, content, description)

\* max_retries of stream_job_output.
StreamMaxRetries == 60
\* Longest console text a build writes.
MaxConsole == 2

TimeoutMarker == "[TIMEOUT: Job took too long to complete or there was an error accessing the build]"
NoStreamResult == [status |-> "", console_output |-> <<>>, complete |-> FALSE]

\* ----------------------------------------- MiladyOSToolServer: run_pipeline

\* src/miladyos_mcp.py uses datetime.now() without importing datetime:
\* evaluating it raises NameError.
DatetimeImported == FALSE

\* f"direct-pipeline-{str(uuid.uuid4())[:8]}"
DirectJob == <<"direct-pipeline-", "u">>
\* f"direct-{job_name}"
DirectLabel(job) == <<"direct-">> \o job

\* The direct write of a running execution by run_pipeline (lines 1438-1448
\* and 1468-1478).  Returns [w, raised].
DirectSave(W, id, tpl, job, srv, build) ==
    IF ~DatetimeImported THEN [w |-> W, raised |-> TRUE]
    ELSE LET now == W.clock + 1
         IN [w |-> [W EXCEPT
                      !.clock = now,
                      !.execHash = HSet(@, id,
                          [BlankExec EXCEPT !.template_name = tpl,
                              !.jenkins_job_name = job, !.server_name = srv,
                              !.build_number = build, !.status = "running",
                              !.started_at = now]),
                      !.executions = ZAdd(@, id, now)],
             raised |-> FALSE]

\* The recording of a started build (lines 1410-1482).  Returns [w, id]: id
\* is execution_info["id"] afterwards.
RecordStarted(W, tpl, job, srv, build, params, f) ==
    CHOOSE out \in {
        LET saved == ~r.raised /\ HashExists(r.w.execHash, r.id)
            d1 == DirectSave(r.w, r.id, tpl, job, srv, build)
            id2 == FreshId(r.w.usedIds)
            W2 == [r.w EXCEPT !.usedIds = @ \cup {id2}]
            d2 == DirectSave(W2, id2, tpl, job, srv, build)
        IN IF saved THEN [w |-> r.w, id |-> r.id]
           ELSE IF ~r.raised /\ ~d1.raised THEN [w |-> d1.w, id |-> r.id]
           ELSE [w |-> IF d2.raised THEN W2 ELSE d2.w, id |-> id2]
        : r \in {RecordExecution(W, 0, tpl, job, srv, build, params, f)}} : TRUE

\* The recording of a queued build that returns an id of its own making
\* whatever record_execution did.
RecordQueuedSynthesizing(W, tpl, job, srv, params, f) ==
    CHOOSE out \in {
        [w |-> [r.w EXCEPT !.usedIds = @ \cup {FreshId(r.w.usedIds)}],
         id |-> FreshId(r.w.usedIds)]
        : r \in {RecordExecution(W, 0, tpl, job, srv, 0, params, f)}} : TRUE

\* The recording of a queued build (lines 1619-1636).  Returns [w, id].
RecordQueued(W, tpl, job, srv, params, f) ==
    CHOOSE out \in {
        LET id2 == FreshId(r.w.usedIds)
        IN IF ~r.raised THEN [w |-> r.w, id |-> r.id]
           ELSE [w |-> [r.w EXCEPT !.usedIds = @ \cup {id2}], id |-> id2]
        : r \in {RecordExecution(W, 0, tpl, job, srv, 0, params, f)}} : TRUE

\* The fallback write of a final status (lines 1546-1577).
FallbackStatus(W, id, st, res) ==
    IF ~DatetimeImported THEN W
    ELSE [W EXCEPT
            !.execHash = HSet(@, id,
                [(IF HashExists(@, id) THEN @[id] ELSE BlankExec) EXCEPT
                    !.status = st, !.result = res.status,
                    !.console_stored = TRUE]),
            !.console = HSet(@, id, res.console_output),
            !.statusSet = MoveStatus(@, id, "running", st, TRUE, TRUE)]

\* The status written for every streamed result alike.
StreamedStatusAlwaysComplete(result) == "complete"

\* "complete" if result["status"] == "SUCCESS" else "failed" (lines 1520,
\* 1538, 1548).
StreamedStatus(result) == IF result = "SUCCESS" THEN "complete" ELSE "failed"

\* The update after streaming (lines 1490-1577).  infoFails: get_build_info
\* raises when the duration is read.
UpdateStreamed(W, id, tpl, job, srv, build, res, infoFails, f) ==
    LET st == StreamedStatus(res.status)
        missing == ~HashExists(W.execHash, id)
        W1 == IF missing /\ DatetimeImported
              THEN [W EXCEPT !.execHash = HSet(@, id,
                        [BlankExec EXCEPT !.template_name = tpl,
                            !.jenkins_job_name = job, !.server_name = srv,
                            !.build_number = build, !.started_at = W.clock])]
              ELSE W
    IN IF missing /\ ~DatetimeImported THEN FallbackStatus(W, id, st, res)
       ELSE IF infoFails THEN FallbackStatus(W1, id, st, res)
       ELSE CHOOSE out \in {
                IF u.raised THEN FallbackStatus(u.w, id, st, res)
                ELSE [u.w EXCEPT
                        !.clock = u.w.clock + 1,
                        !.console = HSet(@, id, res.console_output),
                        !.executions = ZAdd(@, id, u.w.clock + 1),
                        !.statusSet = MoveStatus(@, id, "running", st, TRUE, TRUE)]
                : u \in {UpdateExecutionStatus(W1, id, st, res.status,
                                               res.console_output, f)}} : TRUE

\* What run_pipeline returns, with the world after it.
RunResult(W, ok, status, error, id, tpl, job) ==
    [w |-> W, ok |-> ok, status |-> status, error |-> error, id |-> id,
     tpl |-> tpl, job |-> job, console_output |-> NoText]

\* What the stream of a build returns to run_pipeline.
StreamResultOf(status) ==
    [status |-> status,
     console_output |-> IF status = "TIMEOUT" THEN <<"x", TimeoutMarker>>
                        ELSE IF status = "SUCCESS" THEN <<"x", "OK">>
                        ELSE <<"x", "KO">>,
     complete |-> status # "TIMEOUT"]

\* The answer after a stream that reports failure for a stream that did not
\* complete.
StreamedReplyFailingIncomplete(W, res, id, tpl, job) ==
    [RunResult(W, res.complete, res.status, "", id, tpl, job)
     EXCEPT !.console_output = res.console_output]

\* The answer after a stream (lines 1579-1590): success is True whatever
\* the stream returned, status and console_output are the stream's.
StreamedReply(W, res, id, tpl, job) ==
    [RunResult(W, TRUE, res.status, "", id, tpl, job)
     EXCEPT !.console_output = res.console_output]

\* run_pipeline from the start of the job on (lines 1392-1647).
\* e: what Jenkins and the store do during the call.
RunStarted(W, tpl, job, srv, params, stream, e) ==
    IF job \notin W.jobs \/ e.start = "error"
    THEN RunResult(W, FALSE, "error", "start", 0, tpl, job)
    ELSE IF e.start = "queued"
    THEN CHOOSE out \in {
             RunResult(q.w, TRUE, "queued", "", q.id, tpl, job)
             : q \in {RecordQueued(W, tpl, job, srv, params, e.rec)}} : TRUE
    ELSE CHOOSE out \in {
             LET res == StreamResultOf(e.result)
             IN IF stream
                THEN StreamedReply(UpdateStreamed(r.w, r.id, tpl, job, srv, 1,
                                                  res, e.info, e.upd),
                                   res, r.id, tpl, job)
                ELSE RunResult(r.w, TRUE, "running", "", r.id, tpl, job)
             : r \in {RecordStarted(W, tpl, job, srv, 1, params, e.rec)}} : TRUE

\* run_pipeline after its input check (lines 1335-1647).
RunWithInput(W, template, job_name, content, srv, params, stream, e) ==
    LET direct == content /\ template = NoName /\ job_name = NoName
        job == IF direct THEN DirectJob
               ELSE IF job_name # NoName THEN job_name ELSE template
        tpl == IF direct THEN DirectLabel(job) ELSE template
        deploy == content \/ job \notin W.jobs
        noFile == ~content /\ FileOf(tpl) \notin DOMAIN W.files
        emptyFile == ~content /\ ~noFile /\ W.files[FileOf(tpl)] = <<>>
        W1 == [W EXCEPT !.jobs = @ \ {job}]
        W2 == [W EXCEPT !.jobs = @ \cup {job}]
        registered == IF emptyFile \/ tpl # NoName
                      THEN DeployPipeline(W2, tpl, job, srv)
                      ELSE [w |-> W2, raised |-> FALSE, id |-> 0]
    IN IF e.connect
       THEN RunResult(W, FALSE, "error", "connect", 0, tpl, job)
       ELSE IF ~deploy
       THEN RunStarted(W, tpl, job, srv, params, stream, e)
       ELSE IF noFile
       THEN RunResult(W, FALSE, "error", "deploy: no Jenkinsfile", 0, tpl, job)
       ELSE IF e.create
       THEN RunResult(W1, FALSE, "error", "deploy: create_job", 0, tpl, job)
       ELSE CHOOSE out \in {
                IF d.raised
                THEN RunResult(W2, FALSE, "error", "deploy: Template not found",
                               0, tpl, job)
                ELSE RunStarted(d.w, tpl, job, srv, params, stream, e)
                : d \in {registered}} : TRUE

\* run_pipeline without its input check.
RunPipelineWithoutInputCheck(W, template, job_name, content, srv, params, stream, e) ==
    RunWithInput(W, template, job_name, content, srv, params, stream, e)

\* run_pipeline.  template = NoName, job_name = NoName: argument absent;
\* content: jenkinsfile_content is given.
RunPipeline(W, template, job_name, content, srv, params, stream, e) ==
    IF template = NoName /\ ~content
    THEN RunResult(W, FALSE, "error", "input", 0, template, job_name)
    ELSE RunWithInput(W, template, job_name, content, srv, params, stream, e)

\* get_pipeline_status; id 0: no execution_id.  Returns [w, ok, exec].
GetPipelineStatus(W, id) ==
    IF id = 0 THEN [w |-> W, ok |-> FALSE, exec |-> BlankExec]
    ELSE LET g == GetExecution(W, id)
         IN [w |-> g.w, ok |-> g.ok, exec |-> g.exec]

\* ---------------------------------------- JenkinsUtils.stream_job_output

\* full_output[offset:]
PySliceFrom(s, k) == IF k >= Len(s) THEN <<>> ELSE SubSeq(s, k + 1, Len(s))

\* ------------------------------------- JenkinsUtils.connect_to_jenkins

\* Config.JENKINS_SERVERS
JenkinsServers == {"default"}

\* connect_to_jenkins without its second attempt.
ConnectWithoutRetry(server_name, whoami) ==
    IF server_name \notin JenkinsServers THEN [raised |-> TRUE, checks |-> 0]
    ELSE IF whoami[1] THEN [raised |-> FALSE, checks |-> 1]
    ELSE [raised |-> TRUE, checks |-> 1]

\* connect_to_jenkins.  whoami[k] tells whether the k-th get_whoami call
\* succeeds.  Returns [raised, checks]: raised is the JenkinsApiError,
\* checks the number of get_whoami calls made.
ConnectToJenkins(server_name, whoami) ==
    IF server_name \notin JenkinsServers THEN [raised |-> TRUE, checks |-> 0]
    ELSE IF whoami[1] THEN [raised |-> FALSE, checks |-> 1]
    ELSE IF whoami[2] THEN [raised |-> FALSE, checks |-> 2]
    ELSE [raised |-> TRUE, checks |-> 2]

\* -------------------------------------- JenkinsUtils.start_jenkins_job

\* max_retries of start_jenkins_job.
JobMaxRetries == 30
\* Largest build number Jenkins hands out (build numbers start at 1).
MaxBuild == 2

\* What start_jenkins_job hands back: raised tells that it threw instead
\* of returning; build_number 0 is None.
StartResult(raised, status, build_number) ==
    [raised |-> raised, status |-> status, build_number |-> build_number]
NoStartResult == StartResult(FALSE, "", 0)

\* start_jenkins_job letting the exception through.
StartJobPropagating(posted) == StartResult(TRUE, "", 0)

\* The outer handler of start_jenkins_job (lines 248-255).
StartJobExcept(posted) == StartResult(FALSE, "error", 0)

\* start_jenkins_job answering "queued" whatever the loop found.
StartJobAlwaysQueued(build_number) == StartResult(FALSE, "queued", 0)

\* The return after the wait loop (lines 234-246); `if build_number:`.
StartJobReturnRecord(build_number) ==
    IF build_number # 0 THEN StartResult(FALSE, "started", build_number)
    ELSE StartResult(FALSE, "queued", 0)

\* ------------------------------------ MiladyOSToolServer: deploy_pipeline

\* The steps of the deploy_pipeline tool, in the order of the code (lines
\* 1224-1274).
DeployStages == <<"verify", "connect", "read", "delete", "create", "record">>

\* The deploy_pipeline tool.  e.connect: connect_to_jenkins raises;
\* e.create: create_job raises; e.record: where the store fails inside the
\* adapter's deploy_pipeline.  Returns [w, raised, ok, error, steps]:
\* raised is the ValueError of a missing template_name, thrown inside the
\* handler; steps lists the steps begun (not a value of the code).
DeployTool(W, template_name, job_name, srv, e) ==
    LET job == IF job_name # NoName THEN job_name ELSE template_name
        out(w, ok, error, n) ==
            [w |-> w, raised |-> FALSE, ok |-> ok, error |-> error,
             steps |-> SubSeq(DeployStages, 1, n)]
    IN IF template_name = NoName
       THEN [w |-> W, raised |-> TRUE, ok |-> FALSE,
             error |-> "template_name is required", steps |-> <<>>]
       ELSE CHOOSE res \in {
           LET names == {l.templates[i].name : i \in 1..Len(l.templates)}
               W1 == [l.w EXCEPT !.jobs = @ \ {job}]
               W2 == [l.w EXCEPT !.jobs = @ \cup {job}]
           IN IF template_name \notin names
              THEN out(l.w, FALSE, "template_not_found", 1)
              ELSE IF e.connect
              THEN out(l.w, FALSE, "jenkins_api_error", 2)
              ELSE IF FileOf(template_name) \notin DOMAIN l.w.files
              THEN out(l.w, FALSE, "jenkinsfile_not_found", 3)
              ELSE IF e.create
              THEN out(W1, FALSE, "jenkins_api_error", 5)
              ELSE CHOOSE r \in {
                       IF d.raised THEN out(d.w, FALSE, "unexpected_error", 6)
                       ELSE out(d.w, TRUE, "", 6)
                       : d \in {DeployPipelineFailing(W2, template_name, job, srv,
                                                     e.record)}} : TRUE
           : l \in {ListTemplates(W)}} : TRUE

\* ------------------------------------------ MiladyOSToolServer: call_tool

\* Config.DEFAULT_TOOLS; _define_all_tools defines the same nine tools.
DefaultTools ==
    {"create_template", "edit_template", "list_templates", "deploy_pipeline",
     "run_pipeline", "get_pipeline_status", "list_pipeline_runs", "hello_world",
     "execute_command"}
\* process_tool_metadata: the defined tools that are in supported_tools.
ProcessToolMetadata(supported_tools) == DefaultTools \cap supported_tools

\* A dict returned by a handler, by the keys the client looks at; "" stands
\* for a key that is absent.
Rec(success, status, error, message) ==
    [success |-> success, status |-> status, error |-> error, message |-> message]
NoDict == Rec("", "", "", "")
\* Python values a handler can hand back: a dict, a str, None.
PyDict(d) == [kind |-> "dict", s |-> "", d |-> d]
\* A dict that holds a value json.dumps cannot encode.
PyOpaque == [kind |-> "dict", s |-> "opaque", d |-> NoDict]
PyStr(s) == [kind |-> "str", s |-> s, d |-> NoDict]
PyNone == [kind |-> "None", s |-> "", d |-> NoDict]
\* The text of a reply: json.dumps of a dict, or a bare string.
JsonText(d) == [fmt |-> "json", s |-> "", d |-> d]
PlainText(s) == [fmt |-> "plain", s |-> s, d |-> NoDict]
\* str(result)
PyToStr(v) ==
    IF v.kind = "None" THEN "None" ELSE IF v.kind = "str" THEN v.s ELSE "{...}"
\* s.strip()
Strip(s) == IF s \in {"", " "} THEN "" ELSE s
TextContent(text) == [type |-> "text", text |-> text]

\* The record call_tool puts in place of an empty text (lines 823-828).
SubstituteRecord ==
    Rec("", "success", "", "Operation completed successfully, but returned no data")

\* The conversion of a handler's result to the text of the reply (lines
\* 815-838); json.dumps raises on a value it cannot encode and the handler
\* at 831 answers with an error record.
FormatResult(result) ==
    LET formatted == IF result.kind = "dict" THEN JsonText(result.d)
                     ELSE PlainText(PyToStr(result))
    IN IF result = PyOpaque
       THEN JsonText(Rec("", "error", "Error formatting result", ""))
       ELSE IF formatted.fmt = "plain" /\ Strip(formatted.s) = ""
       THEN JsonText(SubstituteRecord)
       ELSE formatted

\* call_tool without its handler for what the tool throws.
CallToolReplyPropagating(h) ==
    IF h.raised THEN [raised |-> TRUE, content |-> <<>>]
    ELSE [raised |-> FALSE, content |-> <<TextContent(FormatResult(h.result))>>]

\* call_tool from the return of _execute_tool on (lines 803-838); h is what
\* the handler did: [raised, result].  Returns [raised, content].
CallToolReply(h) ==
    IF h.raised
    THEN [raised |-> FALSE,
          content |-> <<TextContent(JsonText(
                          Rec("", "error", "Error executing tool", "")))>>]
    ELSE [raised |-> FALSE, content |-> <<TextContent(FormatResult(h.result))>>]

\* What Jenkins and the store do during a tool call.
\*   reg     - the store failure inside register_template (create_template);
\*   store   - the store raises in list_templates, get_execution and
\*             list_executions;
\*   connect, create - connect_to_jenkins, create_job raise (deploy_pipeline);
\*   record  - the store failure inside the adapter's deploy_pipeline;
\*   command - how execute_command ends;
\*   run     - the environment of run_pipeline.
\* It is a record with these fields.
\* The arguments object of a call; a field at its first value is absent.
NoArgs ==
    [template_name |-> NoName, description |-> "", content |-> <<>>,
     diff_preview |-> FALSE, job_name |-> NoName, jenkinsfile_content |-> FALSE,
     stream_output |-> FALSE, execution_id |-> 0, command |-> "", limit |-> 10]

\* f"cmd-{str(uuid.uuid4())[:8]}"
CmdJob == <<"cmd-", "u">>

\* The Jenkins requests of execute_command on the job cmd-<shortid>, in the
\* order of the code (lines 911, 937, 940, 941, 964, 979).
CommandSteps == <<"connect", "delete", "create", "build", "stream", "delete">>

\* The execute_command handler returning after the stream without deleting
\* its job.
ExecuteCommandKeepingJob(W, a, e) ==
    IF a.command = ""
    THEN [w |-> W, d |-> Rec("", "error", "command is required", ""),
          steps |-> <<>>]
    ELSE IF e.command = "connect"
    THEN [w |-> W, d |-> Rec("False", "ERROR", "Error connecting to Jenkins server", ""),
          steps |-> SubSeq(CommandSteps, 1, 1)]
    ELSE IF e.command = "create"
    THEN [w |-> W,
          d |-> Rec("False", "ERROR", "Error with job creation or execution", ""),
          steps |-> SubSeq(CommandSteps, 1, 3)]
    ELSE IF e.command = "queued"
    THEN [w |-> [W EXCEPT !.jobs = @ \cup {CmdJob}],
          d |-> Rec("False", "ERROR", "Job did not start within timeout period", ""),
          steps |-> SubSeq(CommandSteps, 1, 4)]
    ELSE IF e.command = "cleanup"
    THEN [w |-> [W EXCEPT !.jobs = @ \cup {CmdJob}],
          d |-> Rec("True", "SUCCESS", "", ""),
          steps |-> CommandSteps]
    ELSE [w |-> [W EXCEPT !.jobs = @ \cup {CmdJob}],
          d |-> Rec(IF e.command = "SUCCESS" THEN "True" ELSE "False",
                    IF e.command = "SUCCESS" THEN "SUCCESS" ELSE "FAILURE", "", ""),
          steps |-> SubSeq(CommandSteps, 1, 5)]

\* The execute_command handler.  e.command tells how the call goes:
\* "connect" - get_whoami raises; "create" - the job cannot be created;
\* "queued" - the build has no number after the wait; "SUCCESS", "FAILURE" -
\* the stream returns and the job is deleted; "cleanup" - the stream returns
\* SUCCESS and the deletion of the job raises (swallowed, lines 978-981).
\* Returns [w, d, steps]: steps lists the requests begun (not a value of the
\* code).
ExecuteCommand(W, a, e) ==
    IF a.command = ""
    THEN [w |-> W, d |-> Rec("", "error", "command is required", ""),
          steps |-> <<>>]
    ELSE IF e.command = "connect"
    THEN [w |-> W, d |-> Rec("False", "ERROR", "Error connecting to Jenkins server", ""),
          steps |-> SubSeq(CommandSteps, 1, 1)]
    ELSE IF e.command = "create"
    THEN [w |-> W,
          d |-> Rec("False", "ERROR", "Error with job creation or execution", ""),
          steps |-> SubSeq(CommandSteps, 1, 3)]
    ELSE IF e.command = "queued"
    THEN [w |-> [W EXCEPT !.jobs = @ \cup {CmdJob}],
          d |-> Rec("False", "ERROR", "Job did not start within timeout period", ""),
          steps |-> SubSeq(CommandSteps, 1, 4)]
    ELSE IF e.command = "cleanup"
    THEN [w |-> [W EXCEPT !.jobs = @ \cup {CmdJob}],
          d |-> Rec("True", "SUCCESS", "", ""),
          steps |-> CommandSteps]
    ELSE [w |-> W,
          d |-> Rec(IF e.command = "SUCCESS" THEN "True" ELSE "False",
                    IF e.command = "SUCCESS" THEN "SUCCESS" ELSE "FAILURE", "", ""),
          steps |-> CommandSteps]

\* The dict a template tool returns.
ToolDict(r) ==
    Rec(IF r.ok THEN "True" ELSE "False", r.status,
        IF r.ok THEN "" ELSE "error", IF r.status = "success" THEN "done" ELSE "")

\* The branches of _execute_tool (lines 875-1726).  Returns [w, raised, d]:
\* d is the dict returned, raised tells that the branch threw.
ToolBranch(W, tool_id, a, e) ==
    IF tool_id = "execute_command"
    THEN [raised |-> FALSE] @@ ExecuteCommand(W, a, e)
    ELSE IF tool_id = "create_template"
    THEN CHOOSE out \in {[w |-> r.w, raised |-> FALSE, d |-> ToolDict(r)]
           : r \in {CreateTemplate(W, a.template_name, a.description, e.reg)}} : TRUE
    ELSE IF tool_id = "edit_template"
    THEN CHOOSE out \in {[w |-> r.w, raised |-> FALSE, d |-> ToolDict(r)]
           : r \in {EditTemplate(W, a.template_name, a.content, a.diff_preview,
                                 a.description)}} : TRUE
    ELSE IF tool_id = "list_templates"
    THEN IF e.store
         THEN [w |-> W, raised |-> FALSE,
               d |-> Rec("", "error", "Error listing templates", "")]
         ELSE CHOOSE out \in {
                [w |-> l.w, raised |-> FALSE,
                 d |-> IF l.templates = <<>>
                       THEN Rec("", "", "", "No templates found")
                       ELSE Rec("", "success", "", "")]
                : l \in {ListTemplates(W)}} : TRUE
    ELSE IF tool_id = "deploy_pipeline"
    THEN CHOOSE out \in {
           [w |-> r.w, raised |-> r.raised,
            d |-> Rec(IF r.ok THEN "True" ELSE "False", "", r.error,
                      "deploying template")]
           : r \in {DeployTool(W, a.template_name, a.job_name, "default", e)}} : TRUE
    ELSE IF tool_id = "run_pipeline"
    THEN CHOOSE out \in {
           [w |-> r.w, raised |-> FALSE,
            d |-> Rec(IF r.ok THEN "True" ELSE "False", r.status, r.error, "")]
           : r \in {RunPipeline(W, a.template_name, a.job_name,
                                a.jenkinsfile_content, "default", {},
                                a.stream_output, e.run)}} : TRUE
    ELSE IF tool_id = "get_pipeline_status"
    THEN IF a.execution_id = 0
         THEN [w |-> W, raised |-> FALSE,
               d |-> Rec("False", "error", "execution_id is required", "")]
         ELSE IF e.store
         THEN [w |-> W, raised |-> FALSE,
               d |-> Rec("False", "error", "Error getting pipeline status", "")]
         ELSE CHOOSE out \in {
                [w |-> g.w, raised |-> FALSE,
                 d |-> IF g.ok THEN Rec("True", "success", "", "")
                       ELSE Rec("False", "error", "Error getting pipeline status", "")]
                : g \in {GetPipelineStatus(W, a.execution_id)}} : TRUE
    ELSE IF tool_id = "list_pipeline_runs"
    THEN [w |-> W, raised |-> FALSE,
          d |-> IF e.store
                THEN Rec("False", "error", "Error listing pipeline runs", "")
                ELSE Rec("True", "success", "", "")]
    ELSE [w |-> W, raised |-> FALSE, d |-> Rec("False", "error", "Unknown tool", "")]

\* _execute_tool.  Returns [w, raised, result]; raised is never TRUE: the
\* handler's own try/except (lines 1728-1739) turns what a branch throws
\* into a record.
ExecuteTool(W, tool_id, a, e) ==
    IF tool_id = "hello_world"
    THEN [w |-> W, raised |-> FALSE, result |-> PyStr("Hello from MiladyOS!")]
    ELSE CHOOSE out \in {
           [w |-> b.w, raised |-> FALSE,
            result |-> IF b.raised
                       THEN PyDict(Rec("False", "error", "Failed to execute tool", ""))
                       ELSE PyDict(b.d)]
           : b \in {ToolBranch(W, tool_id, a, e)}} : TRUE

\* call_tool on a server whose registry is `registry`.  Returns
\* [w, raised, content].
CallTool(W, registry, name, a, e) ==
    IF name \notin registry
    THEN [w |-> W, raised |-> FALSE,
          content |-> <<TextContent(JsonText(Rec("", "error", "Unknown tool", "")))>>]
    ELSE CHOOSE out \in {
           [w |-> h.w] @@ CallToolReply([raised |-> h.raised, result |-> h.result])
           : h \in {ExecuteTool(W, name, a, e)}} : TRUE

\* ------------------------------------------------------------------- Init

\* The run_pipeline calls in flight at once, and the job they all name.
Tasks == {1, 2}
RunJob == <<"j">>
\* A task before its call: no build number, nothing read, no execution.
\* readFrom is the task whose build gave the result (not a variable of the
\* code).
NoTask ==
    [pc |-> "idle", build |-> 0, offset |-> 0, output |-> <<>>, id |-> 0,
     readFrom |-> 0, status |-> ""]

NoRet ==
    [op |-> "", ok |-> TRUE, id |-> 0, status |-> "", error |-> "",
     tpl |-> NoName, job |-> NoName, version |-> 0,
     tool |-> "", raised |-> FALSE, content |-> <<>>]

Init ==
    /\ clock = 0
    /\ usedIds = {}
    /\ execHash = <<>>
    /\ executions = EmptyZ
    /\ tplExecs = <<>>
    /\ jobExecs = <<>>
    /\ statusSet = [s \in Status |-> {}]
    /\ console = <<>>
    /\ consoleFile = <<>>
    /\ deployments = <<>>
    /\ jobIndex = <<>>
    /\ tplDeployments = <<>>
    /\ tplHash = <<>>
    /\ templates = EmptyZ
    /\ files = <<>>
    /\ jobs = {}
    /\ seenVersion = <<>>
    /\ ret = NoRet
    /\ bldBuilding = TRUE
    /\ bldResult = ""
    /\ bldConsole = <<>>
    /\ stPc = "idle"
    /\ stRetries = 0
    /\ stPolls = 0
    /\ stOffset = 0
    /\ stOutput = <<>>
    /\ stResult = NoStreamResult
    /\ cnChecks = 0
    /\ cnResult = ""
    /\ sjPc = "idle"
    /\ sjPosted = 0
    /\ sjPolls = 0
    /\ sjSeen = 0
    /\ sjRetry = 0
    /\ sjBuild = 0
    /\ sjResult = NoStartResult
    /\ tool_registry = {}
    /\ jkBuilds = <<>>
    /\ jkQueue = [t \in Tasks |-> [state |-> "none", number |-> 0]]
    /\ tk = [t \in Tasks |-> NoTask]

\* ------------------------------------------------- the store adapter's calls

\* The store failures tried in a call of record_execution.
RecordFailureChoices ==
    {f \in RecordFailures : ~f.lookup /\ f.index = 0 /\ ~f.verify}
\* The store failures tried in a call of update_execution_status.
UpdateFailureChoices ==
    {f \in UpdateFailures : ~f.pre /\ f.console = "" /\ f.main \in {0, 1}}

StoreTemplates == {NoName, <<"a">>}
StoreTexts == {NoText, <<"x">>}
\* The result passed with a status.
ResultOf(status) ==
    IF status = "complete" THEN "SUCCESS"
    ELSE IF status = "failed" THEN "FAILURE" ELSE ""

\* A caller of the adapter calls record_execution.
RecordExecutionCall ==
    /\ clock < MaxClock
    /\ usedIds # ExecIds
    /\ \E tpl \in StoreTemplates, f \in RecordFailureChoices :
          LET r == RecordExecution(World, 0, tpl, tpl, "default", 1, {}, f)
          IN /\ Commit(r.w)
             /\ ret' = [NoRet EXCEPT !.op = "record_execution", !.ok = ~r.raised,
                                     !.id = r.id, !.status = "running"]

\* A caller of the adapter calls update_execution_status.
UpdateExecutionStatusCall ==
    /\ clock < MaxClock
    /\ \E id \in ExecIds, status \in Status, text \in StoreTexts,
          f \in UpdateFailureChoices :
          LET r == UpdateExecutionStatus(World, id, status, ResultOf(status), text, f)
          IN /\ Commit(r.w)
             /\ ret' = [NoRet EXCEPT !.op = "update_execution_status",
                                     !.ok = ~r.raised /\ ~r.error,
                                     !.id = id, !.status = status]

\* A caller of the adapter calls list_executions.
ListExecutionsCall ==
    \E tpl \in StoreTemplates, limit \in {0, MaxLimit}, status \in {"", "complete"} :
        LET r == ListExecutions(World, tpl, limit, status)
        IN /\ Commit(r.w)
           /\ ret' = [NoRet EXCEPT !.op = "list_executions"]

\* ------------------------------------------------- calls of template tools

\* The contents a caller of edit_template supplies.
EditContents ==
    {<<Line("T", "new")>>, <<Line("D", "d1"), Line("T", "new")>>}
\* A Jenkinsfile put in the templates directory by hand.
DroppedContent == <<Line("T", "pipeline")>>

CreateTemplateCall ==
    /\ clock < MaxClock
    /\ \E n \in TemplateNames, d \in {"d1"}, f \in RegisterFailures :
          LET r == CreateTemplate(World, n, d, f)
          IN /\ Commit(r.w)
             /\ ret' = [NoRet EXCEPT !.op = "create_template", !.ok = r.ok,
                                     !.status = r.status, !.tpl = n,
                                     !.version = r.version]

EditTemplateCall ==
    /\ clock < MaxClock
    /\ \E n \in TemplateNames, c \in EditContents, preview \in BOOLEAN,
          d \in {"", "d2"} :
          LET r == EditTemplate(World, n, c, preview, d)
          IN /\ Commit(r.w)
             /\ ret' = [NoRet EXCEPT !.op = "edit_template", !.ok = r.ok,
                                     !.status = r.status, !.tpl = n,
                                     !.version = r.version]

ListTemplatesCall ==
    /\ clock < MaxClock
    /\ LET r == ListTemplates(World)
       IN /\ Commit(r.w)
          /\ ret' = [NoRet EXCEPT !.op = "list_templates",
                                  !.version = Len(r.templates)]

\* A caller of the adapter calls register_template.
RegisterTemplateCall ==
    /\ clock < MaxClock
    /\ \E n \in TemplateNames :
          LET r == RegisterTemplate(World, n, "")
          IN /\ Commit(r.w)
             /\ ret' = [NoRet EXCEPT !.op = "register_template", !.ok = ~r.raised,
                                     !.tpl = n, !.version = r.version]

\* A Jenkinsfile is deleted from the templates directory.
FileDeleted ==
    /\ \E n \in TemplateNames :
          /\ FileOf(n) \in DOMAIN files
          /\ Commit([World EXCEPT !.files =
                        [x \in (DOMAIN @) \ {FileOf(n)} |-> @[x]]])
          /\ ret' = [NoRet EXCEPT !.op = "file_deleted", !.tpl = n]

\* A Jenkinsfile is put in the templates directory.
FileDropped ==
    /\ \E n \in TemplateNames :
          /\ FileOf(n) \notin DOMAIN files
          /\ Commit([World EXCEPT !.files = PutKey(@, FileOf(n), DroppedContent)])
          /\ ret' = [NoRet EXCEPT !.op = "file_dropped", !.tpl = n]

NextTemplates ==
    \/ CreateTemplateCall
    \/ EditTemplateCall
    \/ ListTemplatesCall
    \/ RegisterTemplateCall
    \/ FileDeleted
    \/ FileDropped

SpecTemplates == Init /\ [][NextTemplates]_vars

\* --------------------------------------------------- calls of run_pipeline

\* What Jenkins and the store do during a call of run_pipeline:
\*   connect - connect_to_jenkins raises;  create - create_job raises;
\*   start   - what start_jenkins_job returns;
\*   result  - the status stream_job_output returns;
\*   info    - get_build_info raises when the duration is read;
\*   rec, upd - the store failures inside record_execution and
\*             update_execution_status.
\* A field that the call cannot reach keeps its first value.
NoRunFailure ==
    [connect |-> FALSE, create |-> FALSE, start |-> "started",
     result |-> "SUCCESS", info |-> FALSE, rec |-> NoRecordFailure,
     upd |-> NoUpdateFailure]
RunEnvs ==
    {[NoRunFailure EXCEPT !.connect = TRUE], [NoRunFailure EXCEPT !.create = TRUE],
     [NoRunFailure EXCEPT !.start = "error"]}
    \cup {[NoRunFailure EXCEPT !.start = "queued", !.rec = f] :
             f \in RecordFailureChoices \cup {[NoRecordFailure EXCEPT !.verify = TRUE]}}
    \cup {[NoRunFailure EXCEPT !.rec = f, !.result = r, !.info = i, !.upd = u] :
             f \in RecordFailureChoices \cup {[NoRecordFailure EXCEPT !.verify = TRUE]},
             r \in {"SUCCESS", "FAILURE", "TIMEOUT"}, i \in BOOLEAN,
             u \in UpdateFailureChoices}

RunPipelineCall ==
    /\ clock < MaxClock
    /\ Cardinality(ExecIds \ usedIds) >= 2
    /\ \E template \in {NoName, <<"a">>}, job_name \in {NoName, <<"j">>},
          content \in BOOLEAN, stream \in BOOLEAN, e \in RunEnvs :
          \E r \in {RunPipeline(World, template, job_name, content, "default",
                                {}, stream, e)} :
             /\ Commit(r.w)
             /\ ret' = [NoRet EXCEPT !.op = "run_pipeline", !.ok = r.ok,
                                     !.id = r.id, !.status = r.status,
                                     !.error = r.error, !.tpl = r.tpl,
                                     !.job = r.job]

GetPipelineStatusCall ==
    \E id \in 0..MaxExecs :
        LET r == GetPipelineStatus(World, id)
        IN /\ Commit(r.w)
           /\ ret' = [NoRet EXCEPT !.op = "get_pipeline_status", !.ok = r.ok,
                                   !.id = id, !.status = r.exec.status]

NextRun ==
    \/ RunPipelineCall
    \/ GetPipelineStatusCall
    \/ CreateTemplateCall

SpecRun == Init /\ [][NextRun]_vars

\* ------------------------------------------------------- a Jenkins build

\* The k-th line a build writes: every line differs from the others.
ConsoleLine(k) == <<"l", k>>

\* The build writes to its console.
BuildWrites ==
    /\ bldBuilding
    /\ Len(bldConsole) < MaxConsole
    /\ bldConsole' = Append(bldConsole, ConsoleLine(Len(bldConsole) + 1))
    /\ UNCHANGED <<taskVars, clock, storeVars, tplVars, obsVars, clientVars, serverVars,
                   bldBuilding, bldResult, stPc,
                   stRetries, stPolls, stOffset, stOutput, stResult>>

\* The build ends with a result.
BuildEnds ==
    /\ bldBuilding
    /\ \E r \in {"SUCCESS", "FAILURE"} : bldResult' = r
    /\ bldBuilding' = FALSE
    /\ UNCHANGED <<taskVars, clock, storeVars, tplVars, obsVars, clientVars, serverVars,
                   bldConsole, stPc, stRetries,
                   stPolls, stOffset, stOutput, stResult>>

\* stream_job_output is called (lines 263-268).
StreamStart ==
    /\ stPc = "idle"
    /\ stPc' = "loop"
    /\ stRetries' = 0
    /\ stOffset' = 0
    /\ stOutput' = <<>>
    /\ UNCHANGED <<taskVars, clock, storeVars, tplVars, obsVars, clientVars, serverVars,
                   bldBuilding, bldResult, bldConsole,
                   stPolls, stResult>>

\* The whole console text taken as the new output, whatever the offset.
NewOutputFromStart(full_output, offset, consoleFails) ==
    IF consoleFails THEN <<>> ELSE full_output

\* new_output of one fetch (lines 278-279 and 292-293): the console text
\* beyond the offset, nothing when get_build_console_output raises.
NewOutput(full_output, offset, consoleFails) ==
    IF consoleFails THEN <<>> ELSE PySliceFrom(full_output, offset)

\* One iteration of the while loop (lines 270-310), up to its sleep or its
\* return.  infoFails: get_build_info raises; consoleFails:
\* get_build_console_output raises.
StreamPoll ==
    /\ stPc = "loop"
    /\ stRetries < StreamMaxRetries
    /\ stPolls <= StreamMaxRetries
    /\ stPolls' = stPolls + 1
    /\ \E infoFails \in BOOLEAN, consoleFails \in BOOLEAN :
          LET new == NewOutput(bldConsole, stOffset, consoleFails)
          IN IF infoFails
             THEN /\ stRetries' = stRetries + 1
                  /\ UNCHANGED <<stPc, stOffset, stOutput, stResult>>
             ELSE IF bldBuilding
             THEN /\ stOutput' = stOutput \o new
                  /\ stOffset' = stOffset + Len(new)
                  /\ UNCHANGED <<stPc, stRetries, stResult>>
             ELSE /\ stOutput' = stOutput \o new
                  /\ stResult' = [status |-> bldResult,
                                  console_output |-> stOutput \o new,
                                  complete |-> TRUE]
                  /\ stPc' = "done"
                  /\ UNCHANGED <<stRetries, stOffset>>
    /\ UNCHANGED <<taskVars, clock, storeVars, tplVars, obsVars, clientVars, serverVars,
                   bldBuilding, bldResult, bldConsole>>

\* The while test fails: the retry budget is used up (lines 312-319).
StreamTimeout ==
    /\ stPc = "loop"
    /\ stRetries >= StreamMaxRetries
    /\ stResult' = [status |-> "TIMEOUT",
                    console_output |-> Append(stOutput, TimeoutMarker),
                    complete |-> FALSE]
    /\ stPc' = "done"
    /\ UNCHANGED <<taskVars, clock, storeVars, tplVars, obsVars, clientVars, serverVars,
                   bldBuilding, bldResult, bldConsole,
                   stRetries, stPolls, stOffset, stOutput>>

NextStream ==
    \/ BuildWrites
    \/ BuildEnds
    \/ StreamStart
    \/ StreamPoll
    \/ StreamTimeout

SpecStream == Init /\ [][NextStream]_vars

NextStore ==
    \/ RecordExecutionCall
    \/ UpdateExecutionStatusCall
    \/ ListExecutionsCall

SpecStore == Init /\ [][NextStore]_vars

\* ---------------------------------------------- the fallback console files

\* The console texts left on the disk.
ConsoleTexts == {<<>>, <<"x">>, <<"x", "OK">>, <<"x", "KO">>, <<"KO", "OK">>}

\* The file store has left metadata/console_<id>.txt for an execution of
\* its own (MetadataManager.update_execution_status).
LegacyConsoleFile ==
    \E id \in ExecIds \ usedIds, text \in ConsoleTexts :
        /\ Commit([World EXCEPT !.consoleFile = HSet(@, id, text),
                                !.usedIds = @ \cup {id}])
        /\ ret' = [NoRet EXCEPT !.op = "console_file", !.id = id]

\* A caller of the adapter calls get_execution.
GetExecutionCall ==
    \E id \in ExecIds :
        LET r == GetExecution(World, id)
        IN /\ Commit(r.w)
           /\ ret' = [NoRet EXCEPT !.op = "get_execution", !.ok = r.ok,
                                   !.id = id, !.status = r.exec.status]

\* A caller of the adapter records an execution with parameters.
RecordWithParametersCall ==
    /\ clock < MaxClock
    /\ usedIds # ExecIds
    /\ \E p \in {q \in ParamMaps : Cardinality(q) = Len(JsonKeys)} :
          LET r == RecordExecution(World, 0, <<"a">>, <<"a">>, "default", 1, p,
                                   NoRecordFailure)
          IN /\ Commit(r.w)
             /\ ret' = [NoRet EXCEPT !.op = "record_execution", !.ok = ~r.raised,
                                     !.id = r.id, !.status = "running"]

NextFallback ==
    \/ LegacyConsoleFile
    \/ GetExecutionCall
    \/ RecordExecutionCall
    \/ RecordWithParametersCall

SpecFallback == Init /\ [][NextFallback]_vars

\* ------------------------------------------------ the console of an execution

\* The console texts a caller passes to update_execution_status.
UpdateTexts == {NoText, <<"x">>, <<"y">>}

\* A caller of the adapter calls update_execution_status with or without a
\* console text, the store answering every call.
UpdateConsoleCall ==
    /\ clock < MaxClock
    /\ \E id \in ExecIds, status \in {"complete"}, text \in UpdateTexts :
          LET r == UpdateExecutionStatus(World, id, status, ResultOf(status), text,
                                         NoUpdateFailure)
          IN /\ Commit(r.w)
             /\ ret' = [NoRet EXCEPT !.op = "update_execution_status",
                                     !.ok = ~r.raised /\ ~r.error,
                                     !.id = id, !.status = status,
                                     !.content = text]

\* The file store has left one console file, with a text that no caller of
\* update_execution_status passes.
FileText == <<"f">>
ConsoleFileLeft ==
    \E id \in ExecIds \ usedIds :
        /\ Commit([World EXCEPT !.consoleFile = HSet(@, id, FileText),
                                !.usedIds = @ \cup {id}])
        /\ ret' = [NoRet EXCEPT !.op = "console_file", !.id = id]

NextConsole ==
    \/ ConsoleFileLeft
    \/ UpdateConsoleCall
    \/ GetExecutionCall

SpecConsole == Init /\ [][NextConsole]_vars

\* ------------------------------------------------------ the Jenkins client

\* A caller connects to a Jenkins server.
ConnectCall ==
    /\ \E server_name \in {"default", "other"}, whoami \in [1..2 -> BOOLEAN] :
          LET r == ConnectToJenkins(server_name, whoami)
          IN /\ cnChecks' = r.checks
             /\ cnResult' = IF r.raised THEN "JenkinsApiError" ELSE "handle"
    /\ UNCHANGED <<taskVars, clock, storeVars, tplVars, obsVars, streamVars, serverVars,
                   sjPc, sjPosted, sjPolls, sjSeen, sjRetry, sjBuild, sjResult>>

\* start_jenkins_job is called and asks whether the job exists (lines
\* 191-205): the answer is yes, no, or the request raises.
StartJobBegin ==
    /\ sjPc \in {"idle", "done"}
    /\ \E answer \in {"yes", "no", "raise"} :
          /\ sjPc' = IF answer = "no" THEN "done" ELSE "trigger"
          /\ sjResult' = IF answer = "no" THEN StartResult(FALSE, "error", 0)
                         ELSE NoStartResult
    /\ sjPosted' = 0
    /\ sjPolls' = 0
    /\ sjSeen' = 0
    /\ sjRetry' = 0
    /\ sjBuild' = 0
    /\ UNCHANGED <<taskVars, clock, storeVars, tplVars, obsVars, streamVars, serverVars,
                   cnChecks, cnResult>>

\* build_job (lines 207-212): it returns a queue number or raises.
StartJobTrigger ==
    /\ sjPc = "trigger"
    /\ sjPosted' = sjPosted + 1
    /\ \E posted \in BOOLEAN :
          /\ sjPc' = IF posted THEN "poll" ELSE "done"
          /\ sjResult' = IF posted THEN sjResult ELSE StartJobExcept(posted)
    /\ UNCHANGED <<taskVars, clock, storeVars, tplVars, obsVars, streamVars, serverVars,
                   cnChecks, cnResult, sjPolls, sjSeen, sjRetry, sjBuild>>

\* One iteration of the wait loop (lines 219-232).  q is what get_queue_item
\* gives: -1 the request raises, 0 no executable yet, otherwise the number
\* of the executable.
StartJobPoll ==
    /\ sjPc = "poll"
    /\ sjRetry < JobMaxRetries
    /\ sjPolls' = sjPolls + 1
    /\ \E q \in -1..MaxBuild :
          IF q >= 1
          THEN /\ sjBuild' = q
               /\ sjSeen' = q
               /\ sjPc' = "return"
               /\ UNCHANGED sjRetry
          ELSE /\ sjRetry' = sjRetry + 1
               /\ UNCHANGED <<sjBuild, sjSeen, sjPc>>
    /\ UNCHANGED <<taskVars, clock, storeVars, tplVars, obsVars, streamVars, serverVars,
                   cnChecks, cnResult, sjPosted, sjResult>>

\* The loop is left, by break or because the budget is used up, and the
\* record is returned (lines 234-246).
StartJobReturn ==
    /\ sjPc = "return" \/ (sjPc = "poll" /\ sjRetry >= JobMaxRetries)
    /\ sjPc' = "done"
    /\ sjResult' = StartJobReturnRecord(sjBuild)
    /\ UNCHANGED <<taskVars, clock, storeVars, tplVars, obsVars, streamVars, serverVars,
                   cnChecks, cnResult, sjPosted, sjPolls, sjSeen, sjRetry, sjBuild>>

NextJenkins ==
    \/ ConnectCall
    \/ StartJobBegin
    \/ StartJobTrigger
    \/ StartJobPoll
    \/ StartJobReturn

SpecJenkins == Init /\ [][NextJenkins]_vars

\* The coroutine of start_jenkins_job keeps running: its sleeps return.
SpecJenkinsLive ==
    /\ SpecJenkins
    /\ WF_vars(StartJobTrigger)
    /\ WF_vars(StartJobPoll)
    /\ WF_vars(StartJobReturn)

\* ---------------------------------------------------------- the tool server

\* The supported_tools lists a server is built with.
SupportedChoices == {DefaultTools, DefaultTools \ {"hello_world", "execute_command"}}

\* initialize(): the registry is built from supported_tools.
Initialize ==
    /\ tool_registry = {}
    /\ \E supported_tools \in SupportedChoices :
          tool_registry' = ProcessToolMetadata(supported_tools)
    /\ UNCHANGED <<taskVars, clock, storeVars, tplVars, obsVars, streamVars, clientVars>>

NoToolFailure ==
    [reg |-> "", store |-> FALSE, connect |-> FALSE, create |-> FALSE,
     record |-> "", command |-> "SUCCESS", run |-> NoRunFailure]
ToolCall(name, a, e) == [name |-> name, a |-> a, e |-> e]
\* The calls a client makes.
ToolCalls ==
    {ToolCall(n, NoArgs, NoToolFailure) :
        n \in {"hello_world", "no_such_tool", "execute_command", "create_template",
               "edit_template", "deploy_pipeline", "run_pipeline",
               "get_pipeline_status"}}
    \cup {ToolCall("execute_command", [NoArgs EXCEPT !.command = "ls"],
                   [NoToolFailure EXCEPT !.command = x]) :
             x \in {"connect", "create", "queued", "SUCCESS", "FAILURE",
                    "cleanup"}}
    \cup {ToolCall("create_template",
                   [NoArgs EXCEPT !.template_name = n, !.description = "d1"],
                   [NoToolFailure EXCEPT !.reg = f]) :
             n \in TemplateNames, f \in RegisterFailures}
    \cup {ToolCall("edit_template",
                   [NoArgs EXCEPT !.template_name = <<"a">>,
                                  !.content = <<Line("T", "new")>>,
                                  !.diff_preview = p],
                   NoToolFailure) : p \in BOOLEAN}
    \cup {ToolCall(n, [NoArgs EXCEPT !.execution_id = 1],
                   [NoToolFailure EXCEPT !.store = st]) :
             n \in {"list_templates", "list_pipeline_runs", "get_pipeline_status"},
             st \in BOOLEAN}
    \cup {ToolCall("deploy_pipeline", [NoArgs EXCEPT !.template_name = <<"a">>],
                   [NoToolFailure EXCEPT !.connect = x, !.create = y]) :
             x \in BOOLEAN, y \in BOOLEAN}
    \cup {ToolCall("run_pipeline",
                   [NoArgs EXCEPT !.template_name = <<"a">>, !.stream_output = s],
                   [NoToolFailure EXCEPT !.run = r]) :
             s \in BOOLEAN,
             r \in {NoRunFailure, [NoRunFailure EXCEPT !.connect = TRUE],
                    [NoRunFailure EXCEPT !.start = "queued"],
                    [NoRunFailure EXCEPT !.result = "TIMEOUT"]}}

\* A client calls a tool.
CallToolCall ==
    /\ tool_registry # {}
    /\ clock < MaxClock
    /\ \E c \in ToolCalls :
          /\ c.name = "run_pipeline" => Cardinality(ExecIds \ usedIds) >= 2
          /\ \E r \in {CallTool(World, tool_registry, c.name, c.a, c.e)} :
                /\ Commit(r.w)
                /\ ret' = [NoRet EXCEPT !.op = "call_tool", !.tool = c.name,
                                        !.raised = r.raised,
                                        !.content = r.content]

NextServer ==
    \/ Initialize
    \/ CallToolCall

SpecServer == Init /\ [][NextServer]_vars

\* ------------------------------------------------- deployments and runs

\* What Jenkins and the store do during a call of the deploy_pipeline tool.
DeployCallEnvs ==
    {NoToolFailure, [NoToolFailure EXCEPT !.create = TRUE]}
    \cup {[NoToolFailure EXCEPT !.record = f] : f \in DeployFailures}

\* A client deploys the template "a", under its own name or as job "j".
DeployPipelineCall ==
    /\ clock < MaxClock
    /\ \E job_name \in {NoName, <<"j">>}, e \in DeployCallEnvs :
          LET r == DeployTool(World, <<"a">>, job_name, "default", e)
          IN /\ Commit(r.w)
             /\ ret' = [NoRet EXCEPT !.op = "deploy_pipeline", !.ok = r.ok,
                                     !.error = r.error, !.tpl = <<"a">>,
                                     !.job = IF job_name # NoName THEN job_name
                                             ELSE <<"a">>]

\* A client runs a template, under its own name or as job "j", without
\* streaming; create_job answers or raises during the deploy step.
RunDeployedCall ==
    /\ clock < MaxClock
    /\ Cardinality(ExecIds \ usedIds) >= 2
    /\ \E template \in TemplateNames, job_name \in {NoName, <<"j">>},
          e \in {NoRunFailure, [NoRunFailure EXCEPT !.create = TRUE]} :
          \E r \in {RunPipeline(World, template, job_name, FALSE, "default",
                                {}, FALSE, e)} :
             /\ Commit(r.w)
             /\ ret' = [NoRet EXCEPT !.op = "run_pipeline", !.ok = r.ok,
                                     !.id = r.id, !.status = r.status,
                                     !.error = r.error, !.tpl = r.tpl,
                                     !.job = r.job]

NextDeploy ==
    \/ CreateTemplateCall
    \/ DeployPipelineCall
    \/ RunDeployedCall

SpecDeploy == Init /\ [][NextDeploy]_vars

\* --------------------------------------- run_pipeline calls served at once

\* Each task is a call run_pipeline(job_name="j", jenkinsfile_content=<its
\* text>, stream_output=true).  A task runs from one asyncio.sleep to the
\* next without interruption; the sleeps are in the wait loop of
\* start_jenkins_job and in the loop of stream_job_output.

\* The k-th console line of a build triggered by task t.
TaskLine(t, k) == <<t, k>>

\* Jenkins starts the build of a waiting queue item: it gets the next build
\* number of the job as it exists now.
JenkinsBuildStarts ==
    \E t \in Tasks :
        /\ jkQueue[t].state = "waiting"
        /\ RunJob \in jobs
        /\ jkBuilds' = Append(jkBuilds, [by |-> t, building |-> TRUE,
                                         result |-> "", console |-> <<>>])
        /\ jkQueue' = [jkQueue EXCEPT ![t] = [state |-> "started",
                                              number |-> Len(jkBuilds) + 1]]
        /\ UNCHANGED <<tk, clock, storeVars, tplVars, obsVars, streamVars,
                       clientVars, serverVars>>

\* A running build writes a line to its console or ends with a result.
JenkinsBuildRuns ==
    \E n \in 1..Len(jkBuilds) :
        /\ jkBuilds[n].building
        /\ \/ /\ Len(jkBuilds[n].console) < MaxConsole
              /\ jkBuilds' = [jkBuilds EXCEPT ![n].console =
                                 Append(@, TaskLine(jkBuilds[n].by, Len(@) + 1))]
           \/ \E r \in {"SUCCESS", "FAILURE"} :
                 jkBuilds' = [jkBuilds EXCEPT ![n].building = FALSE,
                                              ![n].result = r]
        /\ UNCHANGED <<jkQueue, tk, clock, storeVars, tplVars, obsVars,
                       streamVars, clientVars, serverVars>>

\* One iteration of the loop of stream_job_output (lines 270-310) by a task
\* with the local variables T, followed, when the stream returns, by the
\* update of run_pipeline (lines 1490-1590).  Returns [w, tk].
StreamIteration(W, T, builds) ==
    IF T.build \notin 1..Len(builds)
    THEN [w |-> W, tk |-> [T EXCEPT !.pc = "stream"]]
    ELSE LET b == builds[T.build]
             new == NewOutput(b.console, T.offset, FALSE)
             res == [status |-> b.result, console_output |-> T.output \o new,
                     complete |-> TRUE]
         IN IF b.building
            THEN [w |-> W,
                  tk |-> [T EXCEPT !.pc = "stream", !.output = @ \o new,
                                   !.offset = @ + Len(new)]]
            ELSE [w |-> UpdateStreamed(W, T.id, NoName, RunJob, "default",
                                       T.build, res, FALSE, NoUpdateFailure),
                  tk |-> [T EXCEPT !.pc = "done", !.output = res.console_output,
                                   !.readFrom = b.by, !.status = b.result]]

\* A task runs from its start to the first sleep of start_jenkins_job (lines
\* 1345-1392 and 176-232): the job is deleted and created again, the build is
\* triggered and its queue item has no build number yet.
TaskBegin ==
    \E t \in Tasks :
        /\ tk[t].pc = "idle"
        /\ CommitWorld([World EXCEPT !.jobs = @ \cup {RunJob}])
        /\ jkBuilds' = <<>>
        /\ jkQueue' = [u \in Tasks |->
                          IF u = t THEN [state |-> "waiting", number |-> 0]
                          ELSE IF jkQueue[u].state = "waiting"
                          THEN [state |-> "cancelled", number |-> 0]
                          ELSE jkQueue[u]]
        /\ tk' = [tk EXCEPT ![t].pc = "queue"]
        /\ UNCHANGED <<obsVars, streamVars, clientVars, serverVars>>

\* A task wakes up in the wait loop of start_jenkins_job.  With a build
\* number in the queue item it records the execution and runs the first
\* iteration of the stream; without one after the last retry it records the
\* queued execution and returns (lines 1616-1647).
TaskQueuePoll ==
    \E t \in Tasks :
        /\ tk[t].pc = "queue"
        /\ IF jkQueue[t].state = "started"
           THEN \E r \in {RecordStarted(World, NoName, RunJob, "default",
                                        jkQueue[t].number, {}, NoRecordFailure)} :
                  \E s \in {StreamIteration(r.w,
                                            [tk[t] EXCEPT !.build = jkQueue[t].number,
                                                          !.id = r.id],
                                            jkBuilds)} :
                     /\ CommitWorld(s.w)
                     /\ tk' = [tk EXCEPT ![t] = s.tk]
           ELSE \E q \in {RecordQueued(World, NoName, RunJob, "default", {},
                                       NoRecordFailure)} :
                  /\ CommitWorld(q.w)
                  /\ tk' = [tk EXCEPT ![t].pc = "done", ![t].id = q.id,
                                      ![t].status = "queued"]
        /\ UNCHANGED <<jkBuilds, jkQueue, obsVars, streamVars, clientVars,
                       serverVars>>

\* A task wakes up in the loop of stream_job_output and runs one iteration:
\* its requests name the job and the build number.
TaskStreamPoll ==
    \E t \in Tasks :
        /\ tk[t].pc = "stream"
        /\ \E s \in {StreamIteration(World, tk[t], jkBuilds)} :
              /\ s.tk # tk[t]
              /\ CommitWorld(s.w)
              /\ tk' = [tk EXCEPT ![t] = s.tk]
        /\ UNCHANGED <<jkBuilds, jkQueue, obsVars, streamVars, clientVars,
                       serverVars>>

\* The retries of a stream whose build cannot be read are used up (lines
\* 308-319): the stream returns TIMEOUT with what it gathered.
TaskStreamTimeout ==
    \E t \in Tasks :
        /\ tk[t].pc = "stream"
        /\ tk[t].build \notin 1..Len(jkBuilds)
        /\ LET res == [status |-> "TIMEOUT",
                       console_output |-> Append(tk[t].output, TimeoutMarker),
                       complete |-> FALSE]
           IN CommitWorld(UpdateStreamed(World, tk[t].id, NoName, RunJob,
                                         "default", tk[t].build, res, FALSE,
                                         NoUpdateFailure))
        /\ tk' = [tk EXCEPT ![t].pc = "done", ![t].status = "TIMEOUT"]
        /\ UNCHANGED <<jkBuilds, jkQueue, obsVars, streamVars, clientVars,
                       serverVars>>

NextTasks ==
    \/ JenkinsBuildStarts
    \/ JenkinsBuildRuns
    \/ TaskBegin
    \/ TaskQueuePoll
    \/ TaskStreamPoll
    \/ TaskStreamTimeout

SpecTasks == Init /\ [][NextTasks]_vars

\* ------------------------------------------------------------------ claims

\* C1: after update_execution_status(id, S, ...) has returned without a store
\* error, get_execution(id).status is S and id is a member of status:S and of
\* no other status set, whatever the store held before the call.
C1_UpdateMovesStatus ==
    (ret.op = "update_execution_status" /\ ret.ok) =>
        LET g == GetExecution(World, ret.id)
        IN /\ g.ok
           /\ g.exec.status = ret.status
           /\ \A s \in Status : (ret.id \in statusSet[s]) <=> (s = ret.status)

\* C2: complete and failed are terminal: no step changes the stored status of
\* an execution whose stored status is complete or failed.
C2_TerminalStatusIsFinal ==
    [][\A id \in DOMAIN execHash :
          execHash[id].status \in Terminal =>
              /\ id \in DOMAIN execHash'
              /\ execHash'[id].status = execHash[id].status]_vars

\* C3: stream_job_output returns after at most 60 iterations of its polling
\* loop, whatever the Jenkins server answers, and when its budget is used up it
\* returns complete=false, status=TIMEOUT and the output gathered so far
\* followed by the timeout marker.
C3_StreamWithinSixtyPolls ==
    /\ stPolls <= StreamMaxRetries
    /\ (stPc = "done" /\ stRetries >= StreamMaxRetries) =>
           stResult = [status |-> "TIMEOUT",
                       console_output |-> Append(stOutput, TimeoutMarker),
                       complete |-> FALSE]

\* C4: for every N >= 0, list_executions(limit=N) without a filter returns at
\* most N records, in non-increasing order of their started_at.
C4_ListAtMostNNewestFirst ==
    \A n \in 0..MaxLimit :
        LET recs == ListExecutions(World, NoName, n, "").recs
        IN /\ Len(recs) <= n
           /\ \A i, j \in 1..Len(recs) :
                 i < j => recs[i].exec.started_at >= recs[j].exec.started_at

\* C5: every run_pipeline call that returns a non-error result (success=true)
\* returns an execution id for which get_pipeline_status then succeeds, also
\* when record_execution failed and the id was synthesized.
C5_RunResultCanBeQueried ==
    (ret.op = "run_pipeline" /\ ret.ok) => GetPipelineStatus(World, ret.id).ok

\* C6: run_pipeline with only jenkinsfile_content (the job name
\* direct-pipeline-<shortid> and the label direct-<job> are synthesized) and a
\* Jenkins that can be reached, creates and starts the job, returns
\* success=true with an execution recorded under the label; the label need
\* not be a registered template.
C6_DirectContentRuns ==
    (/\ ret.op = "run_pipeline"
     /\ ret.job = DirectJob
     /\ ret.tpl = DirectLabel(ret.job)
     /\ ret.error \notin {"connect", "deploy: create_job", "start"}) =>
        /\ ret.ok
        /\ ret.job \in jobs
        /\ ret.id \in DOMAIN execHash
        /\ execHash[ret.id].template_name = ret.tpl

\* C7: edit_template with diff_preview=true changes nothing (the Jenkinsfiles,
\* the template records with their version, description and updated_at, the
\* catalog, and everything else are as before) and, for a template whose
\* file exists, returns status=preview with the diff.
C7_PreviewChangesNothing ==
    \A n \in TemplateNames, c \in EditContents, d \in {"", "d2"} :
        LET r == EditTemplate(World, n, c, TRUE, d)
        IN /\ r.w = World
           /\ FileOf(n) \in DOMAIN files =>
                 /\ r.ok
                 /\ r.status = "preview"
                 /\ (r.diff # <<>>) <=> (files[FileOf(n)] # c)

\* A preview was returned for a registered template.
C7_Witness ==
    /\ ret.op = "edit_template"
    /\ ret.status = "preview"
    /\ ret.tpl \in DOMAIN tplHash
    /\ FileOf(ret.tpl) \in DOMAIN files

\* C8: edit_template without diff_preview on a template whose Jenkinsfile
\* exists raises the stored version by exactly 1, with or without a new
\* description, whether or not the template was registered before (an
\* unregistered template counts as version 0).
C8_EditIncrementsVersion ==
    \A n \in TemplateNames, c \in EditContents, d \in {"", "d2"} :
        FileOf(n) \in DOMAIN files =>
            LET old == IF n \in DOMAIN tplHash THEN tplHash[n].version ELSE 0
                r == EditTemplate(World, n, c, FALSE, d)
            IN /\ r.ok
               /\ n \in DOMAIN r.w.tplHash
               /\ r.w.tplHash[n].version = old + 1

\* C9 as stated: a template's version is at least 1 and is never smaller
\* than a version stored earlier for the same name.
C9_VersionNeverDecreases ==
    \A n \in DOMAIN tplHash :
        /\ tplHash[n].version >= 1
        /\ tplHash[n].version >= seenVersion[n]

\* C9 amended: a template's version is at least 1 and does not decrease in
\* any step that keeps the template's record.
C9_VersionNeverDecreasesWhileRegistered ==
    /\ [](\A n \in DOMAIN tplHash : tplHash[n].version >= 1)
    /\ [][\A n \in DOMAIN tplHash :
             n \in DOMAIN tplHash' => tplHash'[n].version >= tplHash[n].version]_vars

\* A template has reached version 2.
C9_Witness ==
    \E n \in DOMAIN tplHash : tplHash[n].version >= 2

\* C10: right after list_templates, a template record and a catalog entry
\* exist for a name exactly if the file <name>.Jenkinsfile exists, and the
\* returned list holds exactly those names.
C10_ListReconcilesWithFiles ==
    LET r == ListTemplates(World)
    IN \A n \in TemplateNames :
          LET onDisk == FileOf(n) \in DOMAIN r.w.files
          IN /\ (n \in DOMAIN r.w.tplHash) <=> onDisk
             /\ (n \in DOMAIN r.w.templates) <=> onDisk
             /\ (\E i \in 1..Len(r.templates) : r.templates[i].name = n) <=> onDisk

\* C11: after every create_template call that returns success=true
\* (also when registering with the store raised and the handler went on),
\* a following list_templates contains the template with version >= 1.
C11_CreatedTemplateIsListed ==
    \A n \in TemplateNames, d \in {"d1", "d2"}, f \in RegisterFailures :
        LET r == CreateTemplate(World, n, d, f)
            listed == ListTemplates(r.w).templates
        IN r.ok => \E i \in 1..Len(listed) :
                      listed[i].name = n /\ listed[i].version >= 1

\* C12: create_template(n, d) followed by list_templates returns an entry
\* named n with description d and version 1, whether or not a template
\* named n had been created before.
C12_CreateListRoundTrip ==
    \A n \in TemplateNames, d \in {"d1", "d2"} :
        LET r == CreateTemplate(World, n, d, "")
            listed == ListTemplates(r.w).templates
        IN r.ok => \E i \in 1..Len(listed) :
                      /\ listed[i].name = n
                      /\ listed[i].description = d
                      /\ listed[i].version = 1

\* What _execute_tool can do, seen from call_tool: throw, or hand back a value.
HandlerOutcomes ==
    {[raised |-> TRUE, result |-> PyNone]}
    \cup {[raised |-> FALSE, result |-> v] :
             v \in {PyNone, PyStr(""), PyStr(" "), PyStr("Hello from MiladyOS!"),
                    PyDict(Rec("True", "success", "", "")), PyOpaque}}
\* The text is the serialization of a record (a JSON object).
IsRecordText(text) == text.fmt = "json"
\* The text is not empty.
IsVisibleText(text) == text.fmt = "json" \/ Strip(text.s) # ""

IsErrorRecord(d) == d.error # "" \/ d.status = "error"

\* C15: every error record a tool returns carries success=false,
\* status="error" and an error text; no record with success=true is an
\* error record.
C15_ErrorRecordsAreUniform ==
    (ret.op = "call_tool" /\ IsRecordText(ret.content[1].text)) =>
        LET d == ret.content[1].text.d
        IN /\ IsErrorRecord(d) =>
                 d.success = "False" /\ d.status = "error" /\ d.error # ""
           /\ d.success = "True" => ~IsErrorRecord(d)

\* C16: start_job never raises.  If the job does not exist it returns a
\* record with status=error without posting a build trigger; if the build
\* trigger or a queue lookup raises it still returns a structured record
\* (error, queued or started).
C16_StartJobNeverRaises ==
    /\ [](/\ ~sjResult.raised
          /\ sjPc = "done" => sjResult.status \in {"error", "queued", "started"}
          /\ (sjPc = "done" /\ sjPosted = 0) => sjResult.status = "error")
    /\ [][(StartJobBegin /\ sjPc' = "done")
             => (sjResult'.status = "error" /\ sjPosted' = 0)]_vars

\* The build trigger raised and start_job returned an error record.
C16_Witness ==
    /\ sjPc = "done"
    /\ sjPosted = 1
    /\ sjPolls = 0
    /\ sjResult = StartResult(FALSE, "error", 0)

\* C17: after posting the build trigger start_job makes at most 30 queue
\* polls and then returns: status=started with the build number if and only
\* if a poll observed an executable number, otherwise status=queued with no
\* build number; it returns whatever the queue does.
C17_StartJobWithinThirtyPolls ==
    /\ [](/\ sjPolls <= JobMaxRetries
          /\ (sjPc = "done" /\ sjPolls > 0) =>
                /\ sjResult.status = "started" <=> sjSeen # 0
                /\ sjResult.status = "started" => sjResult.build_number = sjSeen
                /\ sjResult.status # "started" =>
                      sjResult.status = "queued" /\ sjResult.build_number = 0)
    /\ (sjPc = "poll") ~> (sjPc = "done")

\* Every one of the 30 polls found no executable and start_job returned
\* queued.
C17_Witness ==
    /\ sjPc = "done"
    /\ sjPolls = JobMaxRetries
    /\ sjSeen = 0
    /\ sjResult.status = "queued"

\* C18: connect retries exactly once: at most two identity checks, a handle
\* if the first or the second succeeds, the connection error only after
\* the second has failed; an unknown server name fails without any check.
C18_ConnectRetriesOnce ==
    /\ \A server_name \in {"default", "other"}, whoami \in [1..2 -> BOOLEAN] :
          LET r == ConnectToJenkins(server_name, whoami)
          IN /\ r.checks <= 2
             /\ server_name \notin JenkinsServers => r.raised /\ r.checks = 0
             /\ server_name \in JenkinsServers =>
                   /\ ~r.raised <=> (whoami[1] \/ whoami[2])
                   /\ r.raised => r.checks = 2
                   /\ whoami[1] => r.checks = 1
                   /\ ~whoami[1] => r.checks = 2
    /\ cnChecks <= 2
    /\ cnResult = "handle" => cnChecks \in {1, 2}
    /\ cnResult = "JenkinsApiError" => cnChecks \in {0, 2}

\* The first identity check failed and the second gave the handle.
C18_Witness == cnChecks = 2 /\ cnResult = "handle"

\* The ids of the deployment records of the pair (server, job).
DeploymentsOf(pair) ==
    {d \in DOMAIN deployments :
        <<deployments[d].server_name, deployments[d].jenkins_job_name>> = pair}

C20_DeployWithoutRecordWritesNothing ==
    \A tpl \in TemplateNames \cup {DirectLabel(DirectJob)}, job \in {<<"a">>, <<"j">>} :
        LET r == DeployPipeline(World, tpl, job, "default")
        IN /\ r.raised <=> tpl \notin DOMAIN tplHash
           /\ r.raised => /\ r.w.deployments = deployments
                          /\ r.w.tplDeployments = tplDeployments
                          /\ r.w.jobIndex = jobIndex

\* run_pipeline has deployed a template whose file exists and whose record
\* is missing: the adapter raised and the store holds the earlier
\* deployment only.
C20_Witness ==
    /\ ret.op = "call_tool"
    /\ ret.tool = "run_pipeline"
    /\ ret.content[1].text.d.error = "deploy: Template not found"
    /\ <<"a">> \notin DOMAIN tplHash
    /\ FileOf(<<"a">>) \in DOMAIN files

\* The failures the deploy tool may meet.
DeployEnvs ==
    {[NoToolFailure EXCEPT !.connect = x, !.create = y, !.record = f] :
        x \in BOOLEAN, y \in BOOLEAN, f \in DeployFailures}

\* C21: the deploy tool does its steps in order: verify, connect, read,
\* delete, create, record.  A template that is not listed gives an error
\* after the verify step alone, with no job touched; a failure at any later
\* step gives success=false and leaves no deployment recorded; success=true
\* comes only after all six steps, with the job created and a new
\* deployment record that the job index names.
C21_DeployStepsInOrder ==
    \A tpl \in TemplateNames, e \in DeployEnvs :
        LET r == DeployTool(World, tpl, NoName, "default", e)
            l == ListTemplates(World)
            listed == {l.templates[i].name : i \in 1..Len(l.templates)}
        IN /\ ~r.raised
           /\ \E n \in 1..Len(DeployStages) : r.steps = SubSeq(DeployStages, 1, n)
           /\ tpl \notin listed =>
                 /\ ~r.ok
                 /\ r.steps = <<"verify">>
                 /\ r.w.jobs = jobs
           /\ ~r.ok => r.w.deployments = deployments
           /\ r.ok =>
                 /\ r.steps = DeployStages
                 /\ tpl \in r.w.jobs
                 /\ \E d \in DOMAIN r.w.deployments \ DOMAIN deployments :
                       r.w.jobIndex[<<"default", tpl>>] = d

\* The store failures a queued run may meet inside record_execution.
QueuedRecordFailures ==
    RecordFailureChoices \cup {[NoRecordFailure EXCEPT !.verify = TRUE]}

\* C22: when start_job reports the build queued and the store answers,
\* run_pipeline returns success=true, status=queued and the id of a new
\* execution it has recorded with an empty build number and status
\* running, and get_pipeline_status on that id returns that record.
C22_QueuedRunIsRecorded ==
    Cardinality(ExecIds \ usedIds) >= 2 =>
        \A job_name \in {NoName, <<"j">>}, content \in BOOLEAN :
            LET e == [NoRunFailure EXCEPT !.start = "queued"]
                r == RunPipeline(World, <<"a">>, job_name, content, "default",
                                 {}, FALSE, e)
                g == GetPipelineStatus(r.w, r.id)
            IN r.status = "queued" =>
                  /\ r.ok
                  /\ r.id \notin usedIds
                  /\ HashExists(r.w.execHash, r.id)
                  /\ r.w.execHash[r.id].build_number = 0
                  /\ r.w.execHash[r.id].status = "running"
                  /\ DOMAIN r.w.execHash = DOMAIN execHash \cup {r.id}
                  /\ g.ok
                  /\ g.exec = r.w.execHash[r.id]

\* A client's run has been answered with status queued and the store holds
\* a running execution without a build number.
C22_Witness ==
    /\ ret.op = "call_tool"
    /\ ret.tool = "run_pipeline"
    /\ ret.content[1].text.d.success = "True"
    /\ ret.content[1].text.d.status = "queued"
    /\ \E id \in DOMAIN execHash :
          execHash[id].build_number = 0 /\ execHash[id].status = "running"

\* C23: run_pipeline with neither template_name nor jenkinsfile_content
\* returns success=false, status=error with the input error, whatever
\* Jenkins and the store would do, and leaves the jobs, the files and the
\* store as they were.
C23_MissingInputHasNoEffect ==
    \A job_name \in {NoName, <<"a">>, <<"j">>}, stream \in BOOLEAN,
       e \in {NoRunFailure, [NoRunFailure EXCEPT !.connect = TRUE],
              [NoRunFailure EXCEPT !.create = TRUE],
              [NoRunFailure EXCEPT !.start = "queued"]} :
        LET r == RunPipeline(World, NoName, job_name, FALSE, "default", {}, stream, e)
            c == CallTool(World, tool_registry, "run_pipeline",
                          [NoArgs EXCEPT !.job_name = job_name,
                                         !.stream_output = stream],
                          [NoToolFailure EXCEPT !.run = e])
        IN /\ r = RunResult(World, FALSE, "error", "input", 0, NoName, job_name)
           /\ "run_pipeline" \in tool_registry =>
                 /\ c.w = World
                 /\ ~c.raised
                 /\ c.content[1].text.d.success = "False"
                 /\ c.content[1].text.d.status = "error"

\* A client has called run_pipeline without a template and without a
\* Jenkinsfile, on a server that has a job and a stored template.
C23_Witness ==
    /\ ret.op = "call_tool"
    /\ ret.tool = "run_pipeline"
    /\ ret.content[1].text.d.error = "input"
    /\ jobs # {}
    /\ DOMAIN tplHash # {}

\* The results a stream may report.
StreamResults == {"SUCCESS", "FAILURE", "TIMEOUT"}
\* What Jenkins and the store may do during a streamed run of a started
\* build.
StreamedEnvs ==
    {[NoRunFailure EXCEPT !.result = r, !.info = i] :
        r \in StreamResults, i \in BOOLEAN}
    \cup {[NoRunFailure EXCEPT !.result = r, !.rec = f] :
             r \in StreamResults, f \in QueuedRecordFailures}
    \cup {[NoRunFailure EXCEPT !.result = r, !.upd = u] :
             r \in StreamResults,
             u \in UpdateFailureChoices \cup {[NoUpdateFailure EXCEPT !.pre = TRUE]}}

C25_TimeoutKeepsExecution ==
    Cardinality(ExecIds \ usedIds) >= 2 =>
        \A job_name \in {NoName, <<"j">>}, i \in BOOLEAN :
            LET e == [NoRunFailure EXCEPT !.result = "TIMEOUT", !.info = i]
                r == RunPipeline(World, <<"a">>, job_name, FALSE, "default",
                                 {}, TRUE, e)
                g == GetPipelineStatus(r.w, r.id)
            IN r.status = "TIMEOUT" =>
                  /\ r.ok
                  /\ r.console_output = <<"x", TimeoutMarker>>
                  /\ r.id \notin usedIds
                  /\ HashExists(r.w.execHash, r.id)
                  /\ r.w.execHash[r.id].template_name = <<"a">>
                  /\ g.ok
                  /\ g.exec = r.w.execHash[r.id]

\* A client's streamed run has been answered with status TIMEOUT and the
\* store holds the execution.
C25_Witness ==
    /\ ret.op = "call_tool"
    /\ ret.tool = "run_pipeline"
    /\ ret.content[1].text.d.success = "True"
    /\ ret.content[1].text.d.status = "TIMEOUT"
    /\ \E id \in DOMAIN execHash : execHash[id].result = "TIMEOUT"

\* C26: execute_command creates its job under the generated name
\* cmd-<shortid>; whenever the stream of its build has returned, the
\* deletion of that job has been requested after the stream and before the
\* response, and the job no longer exists when Jenkins has accepted the
\* deletion.
C26_CommandJobDeletedBeforeReturn ==
    ("execute_command" \in tool_registry /\ CmdJob \notin jobs) =>
        \A x \in {"SUCCESS", "FAILURE", "cleanup"} :
            LET r == ExecuteCommand(World, [NoArgs EXCEPT !.command = "ls"],
                                    [NoToolFailure EXCEPT !.command = x])
                n == Len(r.steps)
            IN /\ r.d.status \in {"SUCCESS", "FAILURE"}
               /\ n = 6
               /\ r.steps[3] = "create"
               /\ r.steps[n - 1] = "stream"
               /\ r.steps[n] = "delete"
               /\ x # "cleanup" => (CmdJob \notin r.w.jobs /\ r.w.jobs = jobs)

\* A client's command has run to its result and its job is gone.
C26_Witness ==
    /\ ret.op = "call_tool"
    /\ ret.tool = "execute_command"
    /\ ret.content[1].text.d.status = "SUCCESS"
    /\ CmdJob \notin jobs

\* C27: get_execution on an id without an execution hash and with a
\* console file does not fail; its console_output is the text of the file;
\* its status is complete with result SUCCESS when the text contains
\* "Finished: SUCCESS", else failed with result FAILURE when it contains
\* "Finished: FAILURE", else unknown; afterwards the console key of the id
\* holds the text.
C27_FallbackFromConsoleFile ==
    \A id \in DOMAIN consoleFile \ DOMAIN execHash :
        LET g == GetExecution(World, id)
            text == consoleFile[id]
        IN /\ g.ok
           /\ g.console_output = text
           /\ Contains(text, "OK") =>
                 (g.exec.status = "complete" /\ g.exec.result = "SUCCESS")
           /\ (Contains(text, "KO") /\ ~Contains(text, "OK")) =>
                 (g.exec.status = "failed" /\ g.exec.result = "FAILURE")
           /\ (~Contains(text, "KO") /\ ~Contains(text, "OK")) =>
                 (g.exec.status = "unknown" /\ g.exec.result = "")
           /\ id \in DOMAIN g.w.console
           /\ g.w.console[id] = text
           /\ g.w.execHash = execHash

\* get_execution has answered from a console file that ends in FAILURE,
\* for an id without a hash, and the console key is set.
C27_Witness ==
    /\ ret.op = "get_execution"
    /\ ret.ok
    /\ ret.status = "failed"
    /\ ret.id \in DOMAIN consoleFile
    /\ ret.id \notin DOMAIN execHash
    /\ ret.id \in DOMAIN console

\* C28: a record_execution call that the store answers creates exactly one
\* execution hash, under an id that no hash and no index held before, with
\* status running; the id is added to the executions index, to the
\* template's index when a template name is given, to the job's index when
\* server and job are given, to the running status set and to no other
\* status set; no other hash and no other index entry changes.
C28_RecordExecutionIndexesOneExecution ==
    usedIds # ExecIds =>
        \A tpl \in StoreTemplates, job \in {NoName, <<"j">>}, srv \in {"", "default"} :
            LET r == RecordExecution(World, 0, tpl, job, srv, 1, {}, NoRecordFailure)
                id == r.id
                keyed == job # NoName /\ srv # ""
            IN /\ ~r.raised
               /\ id \notin usedIds
               /\ id \notin DOMAIN execHash
               /\ id \notin DOMAIN executions
               /\ \A s \in Status : id \notin statusSet[s]
               /\ DOMAIN r.w.execHash = DOMAIN execHash \cup {id}
               /\ \A x \in DOMAIN execHash : r.w.execHash[x] = execHash[x]
               /\ r.w.execHash[id].status = "running"
               /\ r.w.execHash[id] = r.info
               /\ DOMAIN r.w.executions = DOMAIN executions \cup {id}
               /\ IF tpl # NoName
                  THEN DOMAIN r.w.tplExecs[tpl] = DOMAIN GetZ(tplExecs, tpl) \cup {id}
                  ELSE r.w.tplExecs = tplExecs
               /\ IF keyed
                  THEN r.w.jobExecs[<<srv, job>>] = GetS(jobExecs, <<srv, job>>) \cup {id}
                  ELSE r.w.jobExecs = jobExecs
               /\ r.w.statusSet["running"] = statusSet["running"] \cup {id}
               /\ \A s \in Status \ {"running"} : r.w.statusSet[s] = statusSet[s]

\* record_execution has returned a second execution while an earlier one
\* is in another status set.
C28_Witness ==
    /\ ret.op = "record_execution"
    /\ ret.ok
    /\ ret.id \in DOMAIN execHash
    /\ ret.id \in statusSet["running"]
    /\ \E x \in DOMAIN execHash \ {ret.id} : x \in statusSet["complete"]

ListedFor(tpl, status, limit) == ListExecutions(World, tpl, limit, status).recs

\* The executions of a template's list whose stored status is `status`.
StoredFor(tpl, status) ==
    {id \in DOMAIN execHash \cap DOMAIN GetZ(tplExecs, tpl) :
        execHash[id].template_name = tpl /\ execHash[id].status = status}

\* Every write of record_execution and update_execution_status went through:
\* each id of the template's list has its hash, with that template name, and
\* is in the set of its stored status.
IndexedWithHash(tpl) ==
    \A id \in DOMAIN GetZ(tplExecs, tpl) :
        /\ id \in DOMAIN execHash
        /\ execHash[id].template_name = tpl
        /\ id \in statusSet[execHash[id].status]

\* C30: with every write gone through, list_executions with a template, a
\* status and a limit N returns at most N records, each with that template
\* name and that stored status, the later started first, and leaves out an
\* execution of the template with that status only when N records that
\* started no earlier are returned.
C30_FilteredListNewestFirst ==
    \A tpl \in StoreTemplates \ {NoName}, status \in Status, limit \in 0..MaxLimit :
        LET l == ListedFor(tpl, status, limit)
        IN IndexedWithHash(tpl) =>
           /\ Len(l) <= limit
           /\ \A i \in 1..Len(l) :
                 /\ l[i].exec.template_name = tpl
                 /\ l[i].exec.status = status
           /\ \A i \in 1..Len(l), j \in 1..Len(l) :
                 i < j => l[i].exec.started_at >= l[j].exec.started_at
           /\ \A id \in StoredFor(tpl, status) :
                 \/ \E i \in 1..Len(l) : l[i].id = id
                 \/ /\ Len(l) = limit
                    /\ \A i \in 1..Len(l) :
                          l[i].exec.started_at >= execHash[id].started_at

\* C31: get_execution on an execution whose hash exists and whose console
\* is not in the store returns the text of console_<id>.txt when that file
\* exists and writes it under the console key, whether or not console_stored
\* is set on the hash.
C31_FallbackWithoutFlag ==
    \A id \in DOMAIN consoleFile :
        LET g == GetExecution(World, id)
        IN HashExists(execHash, id) /\ id \notin DOMAIN console =>
           /\ g.ok
           /\ g.console_output = consoleFile[id]
           /\ id \in DOMAIN g.w.console
           /\ g.w.console[id] = consoleFile[id]

\* C32: a call of update_execution_status for an id that has no hash, all
\* of whose store operations go through, leaves a hash for the id with the
\* requested status and the id in miladyos:executions.
C32_PlaceholderThenUpdate ==
    [][(/\ ret'.op = "update_execution_status"
        /\ ret'.ok
        /\ ~HashExists(execHash, ret'.id))
       => /\ HashExists(execHash', ret'.id)
          /\ execHash'[ret'.id].status = ret'.status
          /\ ret'.id \in DOMAIN executions']_vars

IsPrefix(s, t) == Len(s) <= Len(t) /\ s = SubSeq(t, 1, Len(s))

\* C34: when stream_job_output returns with complete=true, its
\* console_output is the text gathered so far followed by the final suffix
\* beyond the offset, or by nothing when the final fetch raises; it is a
\* prefix of the console text of the build, and with the final fetch going
\* through it is the whole console text.
C34_StreamedTextIsThePrefix ==
    [][(stPc = "loop" /\ stPc' = "done" /\ stResult'.complete)
       => /\ \E fails \in BOOLEAN :
                stResult'.console_output =
                    stOutput \o NewOutput(bldConsole, stOffset, fails)
          /\ IsPrefix(stResult'.console_output, bldConsole)
          /\ stOutput \o NewOutput(bldConsole, stOffset, FALSE) = bldConsole]_vars

\* A stream has returned the whole console text of a build of several
\* lines, gathered in more than one fetch, after a poll that failed.
C34_Witness ==
    /\ stPc = "done"
    /\ stResult.complete
    /\ Len(bldConsole) >= 2
    /\ stResult.console_output = bldConsole
    /\ stOffset \in 1..(Len(bldConsole) - 1)
    /\ stRetries >= 1

\* C35: after run_pipeline has answered "queued", the execution it recorded
\* without a build number does not have the status running and is not in
\* the set of running executions.
C35_QueuedIsNotRunning ==
    (ret.op = "run_pipeline" /\ ret.ok /\ ret.status = "queued")
    => /\ HashExists(execHash, ret.id) =>
             \/ execHash[ret.id].build_number # 0
             \/ execHash[ret.id].status # "running"
       /\ ret.id \notin statusSet["running"]

\* C36: whenever execute_command returns after having created its job
\* cmd-<shortid>, with Jenkins accepting every deletion asked of it - the
\* stream ended in SUCCESS, ended otherwise, or the build got no number
\* within the wait - the job is not on the Jenkins server.
C36_NoCommandJobLeft ==
    ("execute_command" \in tool_registry /\ CmdJob \notin jobs) =>
        \A x \in {"SUCCESS", "FAILURE", "queued"} :
            LET r == ExecuteCommand(World, [NoArgs EXCEPT !.command = "ls"],
                                    [NoToolFailure EXCEPT !.command = x])
            IN (Len(r.steps) >= 4 /\ r.steps[3] = "create") =>
                  CmdJob \notin r.w.jobs

\* C37: every execution with a deployment id names a stored deployment
\* of the same template, the same job and the same server.
C37_ExecutionNamesDeploymentOfItsTemplate ==
    \A id \in DOMAIN execHash :
        LET x == execHash[id]
        IN x.deployment_id # 0 =>
              /\ x.deployment_id \in DOMAIN deployments
              /\ deployments[x.deployment_id].template_name = x.template_name
              /\ deployments[x.deployment_id].jenkins_job_name = x.jenkins_job_name
              /\ deployments[x.deployment_id].server_name = x.server_name

\* C38: a call of edit_template that returns success=false leaves the
\* files of the templates directory and the stored template hashes (version
\* and description) as they were.
C38_FailedEditChangesNothing ==
    [][(ret'.op = "edit_template" /\ ~ret'.ok)
       => /\ files' = files
          /\ tplHash' = tplHash]_vars

\* C39: after a deploy_pipeline or a run_pipeline call that returned an
\* error, every job that the job index maps to a deployment exists on the
\* Jenkins server, and every job on the server, all of them created by
\* deploy steps, has a deployment record.
C39_FailedDeployKeepsJobAndIndexTogether ==
    (ret.op \in {"deploy_pipeline", "run_pipeline"} /\ ~ret.ok)
    => /\ \A pair \in DOMAIN jobIndex : pair[2] \in jobs
       /\ \A j \in jobs :
             \E d \in DOMAIN deployments :
                /\ deployments[d].jenkins_job_name = j
                /\ deployments[d].server_name = "default"

\* The status sets that hold an execution id.
StatusSetsOf(id) == {st \in Status : id \in statusSet[st]}

\* C40: with run_pipeline calls interleaved at their sleeps, a task whose
\* stream has returned a build's result has read it from the build that its
\* own trigger started, every line of the console text stored for its
\* execution was written by that build, the executions of different tasks
\* have different ids, and the id of a finished task is in exactly one
\* status set.
C40_ExecutionRecordsItsOwnBuild ==
    /\ \A t \in Tasks :
          (tk[t].pc = "done" /\ tk[t].readFrom # 0) =>
             /\ tk[t].readFrom = t
             /\ tk[t].id \in DOMAIN console
             /\ \A i \in 1..Len(console[tk[t].id]) : console[tk[t].id][i][1] = t
    /\ \A t \in Tasks, u \in Tasks :
          (t # u /\ tk[t].id # 0) => tk[t].id # tk[u].id
    /\ \A t \in Tasks :
          tk[t].pc = "done" => Cardinality(StatusSetsOf(tk[t].id)) = 1

====
